---- MODULE Spec2Model ----
(***************************************************************************)
(* Model of the utterance-resolution core of vasco:                        *)
(*   source/intent_services/__init__.py  (class IntentService)             *)
(* The Active-Skill Registry (active_skills), the converse round trip and  *)
(* the priority chain of handle_utterance, run by bus handlers that may    *)
(* execute on several worker threads.                                      *)
(***************************************************************************)
EXTENDS Integers, Sequences, FiniteSets, TLC

\* ------------------------------------------------------------------ bounds
MaxEvents == 3        \* handler invocations delivered by the bus
MaxTicks  == 2        \* advances of the wall clock
MaxOps    == 3        \* registry operations applied in SpecReg
MaxThreadEvents == 2  \* SpecThreads: handler invocations
MaxThreadTicks  == 1  \* SpecThreads: advances of the wall clock
MaxThreadDepth  == 3  \* SpecThreads: last position of match_funcs that answers
MaxApiEvents == 3     \* SpecApi: handler invocations
MaxSpeech == 2        \* SpecApi: speech outputs begun
MaxLangEvents == 2    \* SpecLang: handler invocations
MaxLangTicks == 1     \* SpecLang: advances of the wall clock
MaxMgrOps == 4        \* SpecMgr: messages and loads the skill manager handles
MaxQueueOps == 5      \* SpecQueue: calls of the upload queue begun
MaxConvEvents == 2    \* SpecConv: handler invocations
MaxConvTicks == 1     \* SpecConv: advances of the wall clock
MaxConvMgrOps == 2    \* SpecConv: loads and unloads of the skill manager
MaxConvDepth == 3     \* SpecConv: positions of match_funcs that answer

\* ------------------------------------------------------- program constants
converse_timeout == 10          \* minutes to prune active_skills
SecondsPerMinute == 60          \* "* 60" in the pruning condition

Threads == {"t1", "t2"}         \* worker threads of the bus client
Skills  == {"X", "Y"}           \* skill ids
\* the clock advances by exactly the timeout or by one second more
TickSteps == {converse_timeout * SecondsPerMinute,
              converse_timeout * SecondsPerMinute + 1}

\* --------------------------------------------------------------- IntentMatch
\* Python None in every field stands for "no match" (falsy); a namedtuple
\* with four fields is truthy whatever the fields hold.
None  == [intent_service |-> "None", intent_type |-> "None",
          intent_data |-> "None", skill_id |-> "None"]
\* a matcher that raises instead of returning
Raise == [intent_service |-> "Raise", intent_type |-> "None",
          intent_data |-> "None", skill_id |-> "None"]

IntentMatch(service, type, data, skill) ==
    [intent_service |-> service, intent_type |-> type,
     intent_data |-> data, skill_id |-> skill]

Truthy(m) == m # None /\ m # Raise

\* the priority list with the Fallback high and Padatious medium tiers swapped
match_funcs_swapped == <<"_converse", "match_high", "match_intent", "match",
                         "match_medium", "high_prio", "medium_prio", "match_low",
                         "low_prio">>

\* priority list built in handle_utterance
match_funcs == <<"_converse", "match_high", "match_intent", "match",
                 "high_prio", "match_medium", "medium_prio", "match_low",
                 "low_prio">>

\* what a structured matcher (positions 2..9 of match_funcs) may answer:
\* None, an exception, or an IntentMatch with or without intent_type and
\* skill_id (the Fallback tiers answer IntentMatch("Fallback", None, {}, None))
MatcherShapes ==
    {None, Raise} \cup
    { IntentMatch("matcher", ty, IF ty = "None" THEN "None" ELSE "data", sk) :
        ty \in {"None", "intent"}, sk \in {"None"} \cup Skills }

Structured == 2..Len(match_funcs)

\* answers of the eight structured matchers to one event; at most two of
\* them answer something other than None
Oracles ==
    { [i \in Structured |-> IF i = p[1] THEN ra ELSE IF i = p[2] THEN rb ELSE None] :
        p \in {q \in Structured \X Structured : q[1] < q[2]},
        ra \in MatcherShapes, rb \in MatcherShapes }

Kind(r) == IF r = None THEN "none" ELSE IF r = Raise THEN "raise" ELSE "match"

\* match_func(utterance, lang, message) for position i under oracle f
CallMatcher(f, i) ==
    IF Truthy(f[i]) THEN [f[i] EXCEPT !.intent_service = match_funcs[i]] ELSE f[i]

\* the loop without its break: every matcher is called, the last one decides
BreakNever(match) == FALSE

\* "if match: break" in the loop of handle_utterance
Break(match) == Truthy(match)

\* the loop "for match_func in match_funcs: match = ...; if match: break",
\* from position i on; tr is the list of <<position, answer>> so far.
\* An exception leaves the loop (and the try block) at once.
RECURSIVE MatchLoop(_, _, _)
MatchLoop(f, i, tr) ==
    IF i > Len(match_funcs) THEN [trace |-> tr, match |-> None]
    ELSE LET r == CallMatcher(f, i) IN
         IF r = Raise THEN [trace |-> Append(tr, <<i, r>>), match |-> Raise]
         ELSE IF Break(r) THEN [trace |-> Append(tr, <<i, r>>), match |-> r]
         ELSE IF i = Len(match_funcs) THEN [trace |-> Append(tr, <<i, r>>), match |-> r]
         ELSE MatchLoop(f, i + 1, Append(tr, <<i, r>>))

\* what the loop does from position 2 on, and what match_high answers,
\* under each oracle
Outcomes ==
    { [res |-> MatchLoop(o, 2, <<>>), padHigh |-> Kind(o[2])] : o \in Oracles }

\* ------------------------------------------------------------ bus messages
Msg(topic, data) == [topic |-> topic, data |-> data, utterances |-> "None"]

\* send_complete_intent_failure
send_complete_intent_failure == <<Msg("complete_intent_failure", "None")>>

\* the tail of handle_utterance with the failure sent after the "if match:"
\* block instead of in its else branch
EmitBoth(match) ==
    (IF Truthy(match) /\ match.intent_type # "None"
     THEN <<Msg(match.intent_type, match.intent_data)>>
     ELSE <<>>) \o send_complete_intent_failure

\* the tail of handle_utterance without its else branch
EmitSilent(match) ==
    IF Truthy(match) /\ match.intent_type # "None"
    THEN <<Msg(match.intent_type, match.intent_data)>>
    ELSE <<>>

\* the tail of handle_utterance with the else branch attached to
\* "if match.intent_type:"
EmitDangling(match) ==
    IF Truthy(match) /\ match.intent_type # "None"
    THEN <<Msg(match.intent_type, match.intent_data)>>
    ELSE send_complete_intent_failure

\* the tail of handle_utterance: what is published for the final match
Emit(match) ==
    IF Truthy(match)
    THEN IF match.intent_type # "None"
         THEN <<Msg(match.intent_type, match.intent_data)>>
         ELSE <<>>
    ELSE send_complete_intent_failure

\* ------------------------------------------------------ registry primitives
Entry(skill_id, ts) == <<skill_id, ts>>

\* list.remove(x): drops the first element equal to x
RECURSIVE IndexOf(_, _, _)
IndexOf(list, x, i) ==
    IF i > Len(list) THEN 0
    ELSE IF list[i] = x THEN i ELSE IndexOf(list, x, i + 1)

ListRemove(list, x) ==
    LET k == IndexOf(list, x, 1) IN
    SubSeq(list, 1, k - 1) \o SubSeq(list, k + 1, Len(list))

\* list.append(x)
ListInsertBack(list, x) == list \o <<x>>

\* list.insert(0, x)
ListInsertFront(list, x) == <<x>> \o list

\* remove_active_skill run without interruption: a list iterator (position
\* idx) over the very list that is being shrunk
RECURSIVE RemoveLoop(_, _, _)
RemoveLoop(list, idx, skill_id) ==
    IF idx > Len(list) THEN list
    ELSE IF list[idx][1] = skill_id
         THEN RemoveLoop(ListRemove(list, list[idx]), idx + 1, skill_id)
         ELSE RemoveLoop(list, idx + 1, skill_id)

remove_active_skill(list, skill_id) == RemoveLoop(list, 1, skill_id)

\* a test that lets every skill id pass
NotEmptyAny(skill_id) == TRUE

\* add_active_skill, 'if skill_id != "":'
NotEmpty(skill_id) == skill_id # ""

\* add_active_skill without the call of remove_active_skill
add_active_skill_keep(list, skill_id, t) ==
    IF skill_id # ""
    THEN ListInsertFront(list, Entry(skill_id, t))
    ELSE list

\* add_active_skill run without interruption, time.time() = t
add_active_skill(list, skill_id, t) ==
    IF NotEmpty(skill_id)
    THEN ListInsertFront(remove_active_skill(list, skill_id), Entry(skill_id, t))
    ELSE list

\* the comprehension's test with "<" in place of "<="
FreshStrict(entry, t) == t - entry[2] < converse_timeout * SecondsPerMinute

\* the pruning comprehension at the top of _converse, time.time() = t
Fresh(entry, t) ==
    t - entry[2] <= converse_timeout * SecondsPerMinute

PruneExpired(list, t) == SelectSeq(list, LAMBDA skill : Fresh(skill, t))

\* the last element of the list in place of the first
UtteranceLast(utterances) == utterances[Len(utterances)]

\* handle_utterance, "utterance = message.data.get("utterances", [])[0]"
Utterance(utterances) == utterances[1]

\* the "utterances" lists of the events delivered: none, or what the
\* recognizer heard followed by its normalised form
Utterances == {<<>>, <<"what's the time", "what is the time">>}

\* ------------------------------------------------------ converse replies
ConverseErrors == {"skill id does not exist",
                   "converse requested but skill not loaded",
                   "exception in converse method"}

\* bus.wait_for_response: None on timeout, otherwise the reply's data
Timeout == [kind |-> "timeout", error |-> "None", result |-> FALSE]

\* no reply yet: the value of "result" before wait_for_response returns
NoReply == [kind |-> "none", error |-> "None", result |-> FALSE]

Replies ==
    {Timeout} \cup
    { [kind |-> "reply", error |-> "None", result |-> b] : b \in BOOLEAN } \cup
    { [kind |-> "reply", error |-> e, result |-> b] :
          e \in ConverseErrors, b \in BOOLEAN }

\* do_converse looking at "result" before it looks for "error"
ConverseResultFirst(r) ==
    IF r.kind = "reply" THEN r.result ELSE FALSE

\* do_converse's return value for a reply
ConverseResult(r) ==
    IF r.kind = "reply" /\ r.error # "None" THEN FALSE
    ELSE IF r.kind = "reply" THEN r.result
    ELSE FALSE

\* a skill that does not answer in time removed like one that does not exist
EvictsOnTimeout(r) ==
    \/ r.kind = "timeout"
    \/ r.kind = "reply" /\ r.error = "skill id does not exist"

\* handle_converse_error removing a skill that is known but not loaded too
EvictsNotLoaded(r) ==
    /\ r.kind = "reply"
    /\ r.error \in {"skill id does not exist",
                    "converse requested but skill not loaded"}

\* handle_converse_error removing the skill whatever the error says
EvictsAnyError(r) == r.kind = "reply" /\ r.error # "None"

\* handle_converse_error: does the reply evict the skill?
Evicts(r) == r.kind = "reply" /\ r.error = "skill id does not exist"

\* ==================================================================== state
VARIABLES
    active_skills,   \* self.active_skills: list of [skill_id, timestamp]
    now,             \* time.time(), in seconds since construction
    ticks,           \* clock advances so far
    nEvents,         \* handler invocations delivered so far
    th,              \* per worker thread: the frame of the handler it runs
    hist,            \* SpecReg: registry operations applied so far
    reg0,            \* SpecReg: the registry the operations started from
    registered_vocab, \* self.registered_vocab: list of register_vocab payloads
    context,         \* adapt_service.context_manager: the entities injected
    speaking,        \* the "isSpeaking" signal of the text-to-speech output
    nSpeech,         \* speech outputs begun so far
    skill_loaders,   \* SkillManager.skill_loaders: skill directory -> loader
    mgrOp,           \* SkillManager: the message handled last
    mgrPub,          \* SkillManager: what it emitted for that message
    nMgr,            \* SkillManager: messages and loads handled so far
    upload_queue,    \* UploadQueue._queue: the loaders waiting for upload
    started,         \* UploadQueue.started
    lock,            \* UploadQueue.lock: the thread inside "with self.lock"
    qth,             \* UploadQueue: the call each thread is executing
    uploaded,        \* loaders whose settings_meta.upload() was called
    owed,            \* loaders put since their last upload
    nQueue           \* UploadQueue: calls begun so far

coreVars == <<active_skills, now, ticks, nEvents, th, hist, reg0>>

svcVars == <<registered_vocab, context, speaking, nSpeech>>

mgrVars == <<skill_loaders, mgrOp, mgrPub, nMgr>>

qVars == <<upload_queue, started, lock, qth, uploaded, owed, nQueue>>

apiVars == <<registered_vocab, context, speaking, nSpeech, mgrVars, qVars>>

vars == <<active_skills, now, ticks, nEvents, th, hist, reg0, apiVars>>

\* SkillManager.__init__: no loader yet
NoOp == [op |-> "none", skill |-> "None", call |-> "None"]

InitMgr ==
    /\ skill_loaders = <<>>
    /\ mgrOp = NoOp
    /\ mgrPub = <<>>
    /\ nMgr = 0

\* a thread that is not inside a call of the upload queue
IdleCall == [pc |-> "idle", op |-> "None", loader |-> "None",
             queue |-> <<>>, i |-> 0, q0 |-> <<>>]

QThreads == {"T1", "T2"}

\* UploadQueue.__init__: empty, not started, lock free
InitQueue ==
    /\ upload_queue = <<>>
    /\ started = FALSE
    /\ lock = "free"
    /\ qth = [t \in QThreads |-> IdleCall]
    /\ uploaded = <<>>
    /\ owed = {}
    /\ nQueue = 0

\* what __init__ leaves in the state outside the registry
InitApi ==
    /\ registered_vocab = <<>>
    /\ context = <<>>
    /\ speaking = FALSE
    /\ nSpeech = 0
    /\ InitMgr
    /\ InitQueue

\* ------------------------------------------------------------ message data
\* a value of the "word" key of an add_context message: absent, a string, an
\* integer or a boolean
NoWord == [type |-> "none", s |-> "", n |-> 0]
StrWord(s) == [type |-> "str", s |-> s, n |-> 0]
IntWord(n) == [type |-> "int", s |-> "", n |-> n]
BoolWord(b) == [type |-> "bool", s |-> "", n |-> IF b THEN 1 ELSE 0]

Words == {NoWord, StrWord(""), StrWord("rain"),
          IntWord(0), IntWord(7), IntWord(12), IntWord(-3),
          BoolWord(TRUE), BoolWord(FALSE)}

\* message.data of the messages whose handlers read it; a key that is
\* absent reads "None" (NoWord for "word")
NoData ==
    [entity_value |-> "None", entity_type |-> "None", regex |-> "None",
     alias_of |-> "None", context |-> "None", word |-> NoWord,
     origin |-> "None", norm_utt |-> "None"]

\* register_vocab payloads: a keyword and a regular expression
VocabPayloads ==
    { [NoData EXCEPT !.entity_value = "rain", !.entity_type = "Weather"],
      [NoData EXCEPT !.regex = "(?P<Location>.*)"] }

\* add_context payloads
ContextPayloads ==
    { [NoData EXCEPT !.context = "weather", !.word = w] : w \in Words }

\* the "lang" key of an event: absent, None, or a language code, written
\* letter by letter
NoLang == [kind |-> "absent", s |-> <<>>]
NoneLang == [kind |-> "None", s |-> <<>>]
StrLang(s) == [kind |-> "str", s |-> s]

MsgLangs == {NoLang, NoneLang, StrLang(<<"E", "N", "-", "U", "S">>),
             StrLang(<<"d", "e", "-", "d", "e">>)}

\* Configuration.get().get("lang", "en-us")
default_lang == <<"e", "n", "-", "u", "s">>

\* str.lower() on one letter
LowerChar(c) ==
    CASE c = "E" -> "e"
      [] c = "N" -> "n"
      [] c = "U" -> "u"
      [] c = "S" -> "s"
      [] c = "D" -> "d"
      [] OTHER   -> c

\* str.lower()
Lower(s) == [i \in DOMAIN s |-> LowerChar(s[i])]

\* the language taken as it is written in the event
get_message_lang_raw(lang) ==
    IF lang.kind = "absent" THEN default_lang ELSE lang.s

\* _get_message_lang, for an event whose "lang" is absent or a string
get_message_lang(lang) ==
    Lower(IF lang.kind = "absent" THEN default_lang ELSE lang.s)

\* frame of a worker thread that runs no handler
IdleFrame ==
    [pc        |-> "idle",
     handler   |-> "none",      \* "utterance" | "reset"
     padHigh   |-> "none",      \* what match_high answers to this event, known
                                \* once the loop over match_funcs has ended
     match     |-> None,        \* local "match" of handle_utterance
     trace     |-> <<>>,        \* <<position, answer>> of every matcher called
     pub       |-> <<>>,        \* messages the handler emitted on the bus
     reqs      |-> <<>>,        \* registry entries sent skill.converse.request
     reply     |-> NoReply,     \* do_converse's "result" for the last request
     ret       |-> FALSE,       \* do_converse's return value
     cands     |-> <<>>,        \* copy(self.active_skills)
     ci        |-> 0,           \* position of the loop over cands
     pruned    |-> <<>>,        \* the list the pruning comprehension built
     startTime |-> 0,           \* time.time() when the converse attempt began
     rmTarget  |-> "None",      \* remove_active_skill: skill_id
     rmIdx     |-> 0,           \* remove_active_skill: list iterator position
     rmCur     |-> <<>>,        \* remove_active_skill: local "skill"
     rmRet     |-> "none",      \* where remove_active_skill returns to
     ts        |-> 0,           \* add_active_skill: value of time.time()
     utterances |-> <<>>,       \* message.data["utterances"] of the event
     utterance |-> "None",      \* local "utterance" of handle_utterance
     skills    |-> <<>>,        \* handle_get_active_skills: the reply's "skills"
     data      |-> NoData,      \* message.data of the event
     msgLang   |-> NoLang,      \* message.data["lang"] of the event
     lang      |-> <<>>,        \* local "lang" of the handler
     calls     |-> <<>>,        \* arguments of every match_func call
     reqMsgs   |-> <<>>,        \* data of every skill.converse.request sent
     vocab     |-> <<>>,        \* handle_vocab_manifest: the reply's "vocab"
     heard     |-> 0,           \* history: speech outputs begun when
                                \* wait_while_speaking last returned
     before    |-> <<>>,        \* history: the registry when the handler began
     gone      |-> {},          \* history: the skills whose converse reply
                                \* said "skill id does not exist"
     prev      |-> "None",      \* history: the skill the resolution that this
                                \* thread ran just before activated, if any
     aborted   |-> "no"]        \* the exception that ended the handler

Set(t, f) == th' = [th EXCEPT ![t] = f]

Init ==
    /\ active_skills = <<>>
    /\ now = 0
    /\ ticks = 0
    /\ nEvents = 0
    /\ th = [t \in Threads |-> IdleFrame]
    /\ hist = <<>>
    /\ reg0 = <<>>
    /\ InitApi

\* ---------------------------------------------------------------- the clock
Tick ==
    /\ ticks < MaxTicks
    /\ \E d \in TickSteps : now' = now + d
    /\ ticks' = ticks + 1
    /\ UNCHANGED <<active_skills, nEvents, th, hist, reg0, apiVars>>

\* ------------------------------------------------- steps shared by handlers
\* where the loop over the candidates goes when cands[ci] is past the end:
\* _converse returns None and handle_utterance calls the structured
\* matchers; reset_converse returns
LoopPc(f) ==
    IF f.ci <= Len(f.cands) THEN "converse"
    ELSE IF f.handler = "utterance" THEN "matchers" ELSE "done"

LoopTrace(f) ==
    IF f.ci > Len(f.cands) /\ f.handler = "utterance" THEN <<<<1, None>>>> ELSE f.trace

\* "match_func(utterance, lang, message)": the arguments of the calls that
\* trace tr lists
CallArgs(f, tr) ==
    [k \in DOMAIN tr |-> [func |-> match_funcs[tr[k][1]],
                          utterance |-> f.utterance, lang |-> f.lang]]

EndLoop(f) == [f EXCEPT !.pc = LoopPc(f), !.trace = LoopTrace(f),
                        !.calls = CallArgs(f, LoopTrace(f))]

\* handle_utterance, "reply.data["utterances"] = utterance": the messages of
\* Emit with the utterance put into the intent message
Publish(f) ==
    [i \in DOMAIN Emit(f.match) |->
        IF Emit(f.match)[i] = send_complete_intent_failure[1]
        THEN Emit(f.match)[i]
        ELSE [Emit(f.match)[i] EXCEPT !.utterances = f.utterance]]

\* an except clause that also sends complete_intent_failure
ExceptFails(f, err) ==
    [f EXCEPT !.pc = "done", !.aborted = err,
              !.pub = @ \o send_complete_intent_failure]

\* handle_utterance, "except Exception as err: LOG.exception(err)"
Except(f, err) == [f EXCEPT !.pc = "done", !.aborted = err]

\* the skill a finished resolution activated
LastActivated(f) ==
    IF /\ f.handler = "utterance" /\ f.pc = "done" /\ f.aborted = "no"
       /\ Truthy(f.match) /\ f.match.skill_id \notin {"None", ""}
    THEN f.match.skill_id
    ELSE "None"

\* handle_utterance, "if match:": a match with a skill_id enters
\* add_active_skill (whose first statement is remove_active_skill), one
\* without goes straight to the emit; no match sends the failure message
AfterLoop(f) ==
    IF Truthy(f.match)
    THEN IF f.match.skill_id # "None" /\ f.match.skill_id # ""
         THEN [f EXCEPT !.pc = "rm_scan", !.rmTarget = f.match.skill_id,
                        !.rmIdx = 1, !.rmRet = "stamp"]
         ELSE [f EXCEPT !.pc = "done", !.pub = @ \o Publish(f)]
    ELSE [f EXCEPT !.pc = "done", !.pub = @ \o Publish(f)]

\* the candidates taken from the far end of the list
CopyReversed(list) == [i \in 1..Len(list) |-> list[Len(list) + 1 - i]]

\* "for skill in copy(self.active_skills)": the candidates, in list order
Copy(list) == list

\* the Converse match without the skill that answered
ConverseMatchAnonymous(skill) == IntentMatch("Converse", "None", "None", "None")

\* _converse, "return IntentMatch("Converse", None, None, skill[0])"
ConverseMatch(skill) == IntentMatch("Converse", "None", "None", skill[1])

\* a loop over the registry itself instead of a copy: the removal of the
\* candidate just asked moves the next one into its place, and the loop
\* steps over it
AfterConverseLive(f) ==
    LET g == [f EXCEPT !.ret = FALSE] IN
    EndLoop([g EXCEPT !.ci = @ + (IF Evicts(f.reply) THEN 2 ELSE 1)])

\* a loop that a truthy value ends for reset_converse as well
AfterConverseAny(f) ==
    LET g == [f EXCEPT !.ret = FALSE] IN
    IF f.ret
    THEN LET m == ConverseMatch(f.cands[f.ci]) IN
         AfterLoop([g EXCEPT !.match = m, !.trace = <<<<1, m>>>>])
    ELSE EndLoop([g EXCEPT !.ci = @ + 1])

\* the loop over the candidates once do_converse has returned: _converse
\* returns the Converse match on a truthy value, reset_converse ignores the
\* value, anything else goes on to the next candidate
AfterConverse(f) ==
    LET g == [f EXCEPT !.ret = FALSE] IN
    IF f.ret /\ f.handler = "utterance"
    THEN LET m == ConverseMatch(f.cands[f.ci]) IN
         IF Break(m)
         THEN AfterLoop([g EXCEPT !.match = m, !.trace = <<<<1, m>>>>,
                                  !.calls = CallArgs(g, <<<<1, m>>>>)])
         ELSE [g EXCEPT !.pc = "matchers", !.match = m, !.trace = <<<<1, m>>>>,
                        !.calls = CallArgs(g, <<<<1, m>>>>)]
    ELSE EndLoop([g EXCEPT !.ci = @ + 1])

\* ------------------------------------------------------- handle_utterance
\* The bus hands a recognizer_loop:utterance event to a free worker thread.
\* An event without utterances raises IndexError at "[0]", which the
\* handler's except clause logs.  Otherwise the handler reaches _converse,
\* whose comprehension reads the registry and the clock.
handle_utterance_from(t, langs) ==
    /\ th[t].pc \in {"idle", "done"}
    /\ nEvents < MaxEvents
    /\ nEvents' = nEvents + 1
    /\ \E utterances \in Utterances, lang \in langs :
         LET f == [IdleFrame EXCEPT !.handler = "utterance",
                                    !.utterances = utterances,
                                    !.msgLang = lang,
                                    !.before = active_skills,
                                    !.prev = LastActivated(th[t])]
         IN Set(t, IF lang.kind = "None"
                   THEN Except(f, "AttributeError")
                   ELSE IF Len(utterances) >= 1
                   THEN [f EXCEPT !.pc = "prune_assign",
                                  !.lang = get_message_lang(lang),
                                  !.utterance = Utterance(utterances),
                                  !.pruned = PruneExpired(active_skills, now),
                                  !.startTime = now]
                   ELSE Except([f EXCEPT !.lang = get_message_lang(lang)],
                               "IndexError"))
    /\ UNCHANGED <<active_skills, now, ticks, hist, reg0, apiVars>>

\* a recognizer_loop:utterance event that carries no "lang"
handle_utterance(t) == handle_utterance_from(t, {NoLang})

\* a recognizer_loop:utterance event with or without "lang"
handle_utterance_lang(t) == handle_utterance_from(t, MsgLangs)

\* _converse, "self.active_skills = [...]"
converse_assign(t) ==
    /\ th[t].pc = "prune_assign"
    /\ active_skills' = th[t].pruned
    /\ Set(t, [th[t] EXCEPT !.pc = "copy", !.pruned = <<>>])
    /\ UNCHANGED <<now, ticks, nEvents, hist, reg0, apiVars>>

\* "for skill in copy(self.active_skills)" of _converse and reset_converse
converse_copy(t) ==
    /\ th[t].pc = "copy"
    /\ Set(t, EndLoop([th[t] EXCEPT !.cands = Copy(active_skills), !.ci = 1]))
    /\ UNCHANGED <<active_skills, now, ticks, nEvents, hist, reg0, apiVars>>

\* do_converse, the data of "skill.converse.request": _converse passes its
\* utterance, reset_converse passes None
ConverseRequest(f, skill) ==
    [skill_id |-> skill[1],
     utterances |-> IF f.handler = "reset" THEN "None" ELSE f.utterance,
     lang |-> f.lang]

\* do_converse for the candidate at position ci, up to wait_for_response:
\* skill.converse.request goes out and the thread blocks
converse_request(t) ==
    /\ th[t].pc = "converse"
    /\ Set(t, [th[t] EXCEPT !.pc = "await",
                            !.reqs = Append(@, th[t].cands[th[t].ci]),
                            !.reqMsgs = Append(@, ConverseRequest(th[t],
                                                  th[t].cands[th[t].ci])),
                            !.reply = NoReply])
    /\ UNCHANGED <<active_skills, now, ticks, nEvents, hist, reg0, apiVars>>

\* do_converse, from the return of wait_for_response: a reply or, on
\* timeout, None.  An error reply goes through handle_converse_error, which
\* removes the skill when the error is "skill id does not exist".
do_converse_from(t, replies) ==
    /\ th[t].pc = "await"
    /\ \E r \in replies :
         LET skill == th[t].cands[th[t].ci]
             f == [th[t] EXCEPT
                     !.reply = r,
                     !.ret = ConverseResult(r),
                     !.gone = IF r.error = "skill id does not exist"
                              THEN @ \cup {skill[1]} ELSE @]
         IN
         IF Evicts(r)
         THEN Set(t, [f EXCEPT !.pc = "rm_scan", !.rmTarget = skill[1],
                               !.rmIdx = 1, !.rmRet = "next"])
         ELSE IF f.ret /\ f.handler = "utterance" /\ Break(ConverseMatch(skill))
              THEN \E ph \in {Kind(x) : x \in MatcherShapes} :
                     Set(t, AfterConverse([f EXCEPT !.padHigh = ph]))
              ELSE Set(t, AfterConverse(f))
    /\ UNCHANGED <<active_skills, now, ticks, nEvents, hist, reg0, apiVars>>

\* do_converse with any reply the bus can carry
do_converse(t) == do_converse_from(t, Replies)

\* handle_utterance, the rest of the loop over match_funcs: the structured
\* matchers touch neither the registry nor the bus, so the eight calls are
\* one step.  An exception is logged by the except clause.
run_matchers(t) ==
    /\ th[t].pc = "matchers"
    /\ \E oc \in Outcomes :
         LET res == oc.res
             f == [th[t] EXCEPT !.trace = @ \o res.trace,
                                !.calls = CallArgs(th[t], th[t].trace \o res.trace),
                                !.padHigh = oc.padHigh,
                                !.reply = NoReply]
         IN IF res.match = Raise
            THEN Set(t, Except(f, "matcher"))
            ELSE Set(t, AfterLoop([f EXCEPT !.match = res.match]))
    /\ UNCHANGED <<active_skills, now, ticks, nEvents, hist, reg0, apiVars>>

\* a loop of remove_active_skill that starts over when it reaches the end
ReturnAgain(f) == [f EXCEPT !.rmIdx = 1]

\* where remove_active_skill returns to
Return(f) ==
    LET g == [f EXCEPT !.rmIdx = 0, !.rmTarget = "None", !.rmRet = "none",
                       !.rmCur = <<>>]
    IN IF f.rmRet = "next" THEN AfterConverse(g)
       ELSE [g EXCEPT !.pc = "stamp"]

\* remove_active_skill, "for skill in self.active_skills": the iterator
\* yields the element at its position, or ends the loop
remove_scan(t) ==
    /\ th[t].pc = "rm_scan"
    /\ IF th[t].rmIdx > Len(active_skills)
       THEN Set(t, Return(th[t]))
       ELSE LET skill == active_skills[th[t].rmIdx] IN
            IF skill[1] = th[t].rmTarget
            THEN Set(t, [th[t] EXCEPT !.pc = "rm_do", !.rmCur = skill,
                                      !.rmIdx = @ + 1])
            ELSE Set(t, [th[t] EXCEPT !.rmIdx = @ + 1])
    /\ UNCHANGED <<active_skills, now, ticks, nEvents, hist, reg0, apiVars>>

\* remove_active_skill, "self.active_skills.remove(skill)": ValueError when
\* another thread has taken the element away in the meantime
remove_do(t) ==
    /\ th[t].pc = "rm_do"
    /\ IF IndexOf(active_skills, th[t].rmCur, 1) # 0
       THEN /\ active_skills' = ListRemove(active_skills, th[t].rmCur)
            /\ Set(t, [th[t] EXCEPT !.pc = "rm_scan", !.rmCur = <<>>])
       ELSE /\ Set(t, Except([th[t] EXCEPT !.rmCur = <<>>, !.rmIdx = 0,
                                           !.rmTarget = "None",
                                           !.rmRet = "none"], "ValueError"))
            /\ UNCHANGED active_skills
    /\ UNCHANGED <<now, ticks, nEvents, hist, reg0, apiVars>>

\* add_active_skill, the argument "[skill_id, time.time()]"
add_stamp(t) ==
    /\ th[t].pc = "stamp"
    /\ Set(t, [th[t] EXCEPT !.pc = "insert", !.ts = now])
    /\ UNCHANGED <<active_skills, now, ticks, nEvents, hist, reg0, apiVars>>

\* add_active_skill, "self.active_skills.insert(0, ...)", and the emit that
\* ends handle_utterance
add_insert(t) ==
    /\ th[t].pc = "insert"
    /\ active_skills' = ListInsertFront(active_skills,
                                        Entry(th[t].match.skill_id, th[t].ts))
    /\ Set(t, [th[t] EXCEPT !.pc = "done", !.ts = 0,
                            !.pub = @ \o Publish(th[t])])
    /\ UNCHANGED <<now, ticks, nEvents, hist, reg0, apiVars>>

\* ----------------------------------------------------------- reset_converse
\* core.speech.recognition.unknown: every registry entry is asked, nothing
\* is pruned
reset_converse_from(t, langs) ==
    /\ th[t].pc \in {"idle", "done"}
    /\ nEvents < MaxEvents
    /\ nEvents' = nEvents + 1
    /\ \E lang \in langs :
         LET f == [IdleFrame EXCEPT !.handler = "reset", !.msgLang = lang,
                                    !.before = active_skills,
                                    !.startTime = now]
         IN Set(t, IF lang.kind = "None"
                   THEN [f EXCEPT !.pc = "done", !.aborted = "AttributeError"]
                   ELSE [f EXCEPT !.pc = "copy",
                                  !.lang = get_message_lang(lang)])
    /\ UNCHANGED <<active_skills, now, ticks, hist, reg0, apiVars>>

\* core.speech.recognition.unknown without "lang"
reset_converse(t) == reset_converse_from(t, {NoLang})

\* core.speech.recognition.unknown with or without "lang"
reset_converse_lang(t) == reset_converse_from(t, MsgLangs)

\* ------------------------------------------------- handle_get_active_skills
\* intent.service.active_skills.get: the reply carries the registry
handle_get_active_skills(t) ==
    /\ th[t].pc \in {"idle", "done"}
    /\ nEvents < MaxEvents
    /\ nEvents' = nEvents + 1
    /\ Set(t, [IdleFrame EXCEPT
                  !.pc = "done", !.handler = "get_active_skills",
                  !.before = active_skills,
                  !.skills = active_skills,
                  !.pub = <<Msg("intent.service.active_skills.reply", "skills")>>])
    /\ UNCHANGED <<active_skills, now, ticks, hist, reg0, apiVars>>

Step(t) ==
    \/ handle_utterance(t)
    \/ converse_assign(t)
    \/ converse_copy(t)
    \/ converse_request(t)
    \/ do_converse(t)
    \/ run_matchers(t)
    \/ remove_scan(t)
    \/ remove_do(t)
    \/ add_stamp(t)
    \/ add_insert(t)
    \/ reset_converse(t)
    \/ handle_get_active_skills(t)

\* -------------------------------------------------------- handle_get_intent
\* the list of handle_get_intent with the first Fallback tier left in
get_intent_match_funcs_fallback ==
    <<"match_high", "match_intent", "high_prio", "match_medium", "match_low">>

\* "match_funcs" of handle_get_intent: the Padatious tiers and Adapt
get_intent_match_funcs ==
    <<"match_high", "match_intent", "match_medium", "match_low">>

\* the position a matcher has in the chain of handle_utterance
PositionOf(name) == CHOOSE i \in DOMAIN match_funcs : match_funcs[i] = name

\* the loop of handle_get_intent from element k of its list on, under oracle
\* f: it ends at the first match; an exception leaves the handler
RECURSIVE GetIntentLoop(_, _, _)
GetIntentLoop(f, k, tr) ==
    IF k > Len(get_intent_match_funcs) THEN [trace |-> tr, match |-> None]
    ELSE LET i == PositionOf(get_intent_match_funcs[k])
             r == CallMatcher(f, i)
         IN IF r = Raise \/ Truthy(r)
            THEN [trace |-> Append(tr, <<i, r>>), match |-> r]
            ELSE GetIntentLoop(f, k + 1, Append(tr, <<i, r>>))

GetIntentOutcomes == { GetIntentLoop(o, 1, <<>>) : o \in Oracles }

IntentReplyTopic == "intent.service.intent.reply"

\* what handle_get_intent emits: the intent of a match that has an
\* intent_type, nothing for a match that has none ("return" without emit),
\* {"intent": None} when the loop ends without a match
GetIntentReply(match) ==
    IF match = Raise THEN <<>>
    ELSE IF Truthy(match)
         THEN IF match.intent_type # "None"
              THEN <<Msg(IntentReplyTopic, match.intent_data)>>
              ELSE <<>>
         ELSE <<Msg(IntentReplyTopic, "None")>>

\* intent.service.intent.get; a query without "utterance" raises KeyError
\* at the handler's first statement
handle_get_intent(t) ==
    /\ th[t].pc \in {"idle", "done"}
    /\ nEvents < MaxApiEvents
    /\ nEvents' = nEvents + 1
    /\ LET f == [IdleFrame EXCEPT !.pc = "done", !.handler = "get_intent",
                                  !.before = active_skills]
       IN \E hasUtterance \in BOOLEAN :
            IF hasUtterance
            THEN \E oc \in GetIntentOutcomes :
                   Set(t, [f EXCEPT !.trace = oc.trace,
                                    !.match = oc.match,
                                    !.aborted = IF oc.match = Raise
                                                THEN "matcher" ELSE "no",
                                    !.pub = GetIntentReply(oc.match)])
            ELSE Set(t, [f EXCEPT !.aborted = "KeyError"])
    /\ UNCHANGED <<active_skills, now, ticks, hist, reg0, apiVars>>

\* ----------------------------------------------------- handle_get_padatious
PadatiousReplyTopic == "intent.service.padatious.reply"

\* what padatious_service.calc_intent answers to the raw and to the
\* normalized utterance: an intent or nothing
CalcIntents ==
    [{"what's the time", "what is the time"} ->
        {"None", "intent of raw", "intent of norm"}]

\* a probe that tries the normalized utterance whatever the raw one gave
RetryNormAlways(intent, norm, utterance) == TRUE

\* handle_get_padatious, "if not intent and norm != utterance"
RetryNorm(intent, norm, utterance) == intent = "None" /\ norm # utterance

\* the calls of calc_intent the handler makes, with their answers
PadatiousCalls(utterance, norm, calc) ==
    LET first == [func |-> "calc_intent", utterance |-> utterance,
                  answer |-> calc[utterance]]
    IN IF RetryNorm(calc[utterance], norm, utterance)
       THEN <<first, [func |-> "calc_intent", utterance |-> norm,
                      answer |-> calc[norm]]>>
       ELSE <<first>>

\* intent.service.padatious.get; a query without "utterance" raises
\* KeyError at the first statement, one without "norm_utt" has norm =
\* utterance
handle_get_padatious(t) ==
    /\ th[t].pc \in {"idle", "done"}
    /\ nEvents < MaxApiEvents
    /\ nEvents' = nEvents + 1
    /\ LET f == [IdleFrame EXCEPT !.pc = "done", !.handler = "get_padatious",
                                  !.before = active_skills]
       IN \E hasUtterance \in BOOLEAN,
             norm_utt \in {"None", "what's the time", "what is the time"},
             calc \in CalcIntents :
            IF hasUtterance
            THEN LET utterance == "what's the time"
                     norm == IF norm_utt = "None" THEN utterance ELSE norm_utt
                     calls == PadatiousCalls(utterance, norm, calc)
                 IN Set(t, [f EXCEPT
                              !.utterance = utterance,
                              !.data = [NoData EXCEPT !.norm_utt = norm_utt],
                              !.calls = calls,
                              !.pub = <<Msg(PadatiousReplyTopic,
                                            calls[Len(calls)].answer)>>])
            ELSE Set(t, [f EXCEPT !.aborted = "KeyError"])
    /\ UNCHANGED <<active_skills, now, ticks, hist, reg0, apiVars>>

\* ---------------------------------------------------- registered vocabulary
\* a log that takes a payload only when it does not hold it yet
VocabAppendNew(log, data) ==
    IF \E i \in DOMAIN log : log[i] = data THEN log ELSE Append(log, data)

\* handle_register_vocab, "self.registered_vocab.append(message.data)"
VocabAppend(log, data) == Append(log, data)

\* register_vocab
handle_register_vocab(t) ==
    /\ th[t].pc \in {"idle", "done"}
    /\ nEvents < MaxApiEvents
    /\ nEvents' = nEvents + 1
    /\ \E d \in VocabPayloads :
         /\ registered_vocab' = VocabAppend(registered_vocab, d)
         /\ Set(t, [IdleFrame EXCEPT !.pc = "done",
                                     !.handler = "register_vocab",
                                     !.before = active_skills,
                                     !.data = d])
    /\ UNCHANGED <<active_skills, now, ticks, hist, reg0,
                   context, speaking, nSpeech, mgrVars, qVars>>

VocabManifestTopic == "intent.service.adapt.vocab.manifest"

\* intent.service.adapt.vocab.manifest.get
handle_vocab_manifest(t) ==
    /\ th[t].pc \in {"idle", "done"}
    /\ nEvents < MaxApiEvents
    /\ nEvents' = nEvents + 1
    /\ Set(t, [IdleFrame EXCEPT !.pc = "done", !.handler = "vocab_manifest",
                                !.before = active_skills,
                                !.vocab = registered_vocab,
                                !.pub = <<Msg(VocabManifestTopic, "vocab")>>])
    /\ UNCHANGED <<active_skills, now, ticks, hist, reg0, apiVars>>

\* -------------------------------------------------------- handle_add_context
\* Python's truth value of a word
Falsy(w) ==
    \/ w.type = "none"
    \/ w.type = "str" /\ w.s = ""
    \/ w.type \in {"int", "bool"} /\ w.n = 0

\* message.data.get("word") or ""
OrEmpty(w) == IF Falsy(w) THEN StrWord("") ELSE w

Digits == <<"0", "1", "2", "3", "4", "5", "6", "7", "8", "9">>

\* str(n) for a natural number
RECURSIVE NatStr(_)
NatStr(n) ==
    IF n < 10 THEN Digits[n + 1]
    ELSE NatStr(n \div 10) \o Digits[(n % 10) + 1]

\* str(word) for a word that is not a string
PyStr(w) ==
    IF w.type = "int"
    THEN IF w.n < 0 THEN "-" \o NatStr(0 - w.n) ELSE NatStr(w.n)
    ELSE IF w.type = "bool" THEN (IF w.n = 1 THEN "True" ELSE "False")
    ELSE "None"

\* the local "word" after "if not isinstance(word, str): word = str(word)"
CoerceWord(w) ==
    LET word == OrEmpty(w)
    IN IF word.type # "str" THEN PyStr(word) ELSE word.s

\* the entity handle_add_context builds; confidence is the float 1.0
ContextEntity(d) ==
    LET word == CoerceWord(d.word) IN
    [confidence |-> "1.0",
     data       |-> <<<<word, d.context>>>>,
     match      |-> word,
     key        |-> word,
     origin     |-> IF d.origin = "None" THEN "" ELSE d.origin]

\* add_context: the entity goes to the context manager of the Adapt engine
handle_add_context(t) ==
    /\ th[t].pc \in {"idle", "done"}
    /\ nEvents < MaxApiEvents
    /\ nEvents' = nEvents + 1
    /\ \E d \in ContextPayloads :
         /\ context' = <<ContextEntity(d)>> \o context
         /\ Set(t, [IdleFrame EXCEPT !.pc = "done", !.handler = "add_context",
                                     !.before = active_skills,
                                     !.data = d])
    /\ UNCHANGED <<active_skills, now, ticks, hist, reg0,
                   registered_vocab, speaking, nSpeech, mgrVars, qVars>>

\* --------------------------------------------------- handle_response_latency
\* intent.service.response.latency: the handler enters its first
\* wait_while_speaking
handle_response_latency(t) ==
    /\ th[t].pc \in {"idle", "done"}
    /\ nEvents < MaxApiEvents
    /\ nEvents' = nEvents + 1
    /\ Set(t, [IdleFrame EXCEPT !.pc = "wait_before", !.handler = "latency",
                                !.before = active_skills])
    /\ UNCHANGED <<active_skills, now, ticks, hist, reg0, apiVars>>

\* wait_while_speaking: after its sleep the loop "while is_speaking()" polls
\* the signal and returns once it finds it off
wait_while_speaking(t) ==
    /\ th[t].pc \in {"wait_before", "wait_after"}
    /\ ~speaking
    /\ Set(t, [th[t] EXCEPT
                 !.pc = IF th[t].pc = "wait_before" THEN "emit" ELSE "done",
                 !.heard = nSpeech])
    /\ UNCHANGED <<active_skills, now, ticks, nEvents, hist, reg0, apiVars>>

\* the handler emitting before it has waited
latency_speak_at_once(t) ==
    /\ th[t].pc \in {"wait_before", "emit"}
    /\ Set(t, [th[t] EXCEPT !.pc = "wait_after",
                            !.pub = Append(@, Msg("speak", "taking_too_long"))])
    /\ UNCHANGED <<active_skills, now, ticks, nEvents, hist, reg0, apiVars>>

\* handle_response_latency, "self.bus.emit(Message("speak", data, context))"
latency_speak(t) ==
    /\ th[t].pc = "emit"
    /\ Set(t, [th[t] EXCEPT !.pc = "wait_after",
                            !.pub = Append(@, Msg("speak", "taking_too_long"))])
    /\ UNCHANGED <<active_skills, now, ticks, nEvents, hist, reg0, apiVars>>

\* the text-to-speech output of the audio service starts to play
SpeechStart ==
    /\ ~speaking
    /\ nSpeech < MaxSpeech
    /\ speaking' = TRUE
    /\ nSpeech' = nSpeech + 1
    /\ UNCHANGED <<active_skills, now, ticks, nEvents, th, hist, reg0,
                   registered_vocab, context, mgrVars, qVars>>

\* and comes to its end
SpeechEnd ==
    /\ speaking
    /\ speaking' = FALSE
    /\ UNCHANGED <<active_skills, now, ticks, nEvents, th, hist, reg0,
                   registered_vocab, context, nSpeech, mgrVars, qVars>>

\* --------------------------------------------------------- specifications
\* Spec: the bus delivers one event at a time (a single worker thread).
MainThread == CHOOSE t \in Threads : TRUE

Next == Tick \/ Step(MainThread)

Spec == Init /\ [][Next]_vars

\* SpecLive: Spec with a worker thread that keeps running the handler it is
\* in, and a bus on which every skill.converse.request gets its reply or
\* times out (do_converse is among the steps).  No event has to arrive and
\* the clock does not have to advance.
Progress(t) ==
    \/ converse_assign(t)
    \/ converse_copy(t)
    \/ converse_request(t)
    \/ do_converse(t)
    \/ run_matchers(t)
    \/ remove_scan(t)
    \/ remove_do(t)
    \/ add_stamp(t)
    \/ add_insert(t)

SpecLive == Init /\ [][Next]_vars /\ WF_vars(Progress(MainThread))

\* SpecThreads: the bus client's thread pool runs the handlers of two events
\* at the same time; any interleaving of their steps may happen.  The events
\* delivered here are answered by one of the first MaxThreadDepth positions
\* of match_funcs or by none.
ThreadBounds ==
    /\ nEvents' <= MaxThreadEvents
    /\ ticks' <= MaxThreadTicks
    /\ \A t \in Threads :
         \/ Len(th'[t].trace) <= MaxThreadDepth
         \/ th'[t].aborted = "no" /\ ~Truthy(th'[t].match)

NextThreads ==
    \/ Tick /\ ThreadBounds
    \/ \E t \in Threads : handle_utterance(t) /\ ThreadBounds
    \/ \E t \in Threads : converse_assign(t)
    \/ \E t \in Threads : converse_copy(t)
    \/ \E t \in Threads : converse_request(t)
    \/ \E t \in Threads : do_converse(t)
    \/ \E t \in Threads : run_matchers(t) /\ ThreadBounds
    \/ \E t \in Threads : remove_scan(t)
    \/ \E t \in Threads : remove_do(t)
    \/ \E t \in Threads : add_stamp(t)
    \/ \E t \in Threads : add_insert(t)
    \/ \E t \in Threads : reset_converse(t) /\ ThreadBounds

SpecThreads == Init /\ [][NextThreads]_vars

\* SpecLang: Spec with events that carry a "lang" of their own
LangBounds ==
    /\ nEvents' <= MaxLangEvents
    /\ ticks' <= MaxLangTicks

NextLang ==
    \/ Tick /\ LangBounds
    \/ handle_utterance_lang(MainThread) /\ LangBounds
    \/ converse_assign(MainThread)
    \/ converse_copy(MainThread)
    \/ converse_request(MainThread)
    \/ do_converse(MainThread)
    \/ run_matchers(MainThread)
    \/ remove_scan(MainThread)
    \/ remove_do(MainThread)
    \/ add_stamp(MainThread)
    \/ add_insert(MainThread)
    \/ reset_converse_lang(MainThread) /\ LangBounds

SpecLang == Init /\ [][NextLang]_vars

\* ------------------------------------------------------------ SkillManager
\* the skill directories under skills_dir_path, as path components
MgrSkills == {"X", "Y", "Z"}

SkillDirs == { <<"skills", n>> : n \in MgrSkills }

\* os.path.basename
Basename(dir) == dir[Len(dir)]

\* a loader as SkillLoader(bus, skill_directory) makes it: its skill id is
\* the name of the directory, it is active and not loaded yet
SkillLoader(dir) == [skill_id |-> Basename(dir), active |-> TRUE, loaded |-> FALSE]

\* skill_loader.deactivate() and skill_loader.activate(): the flag "active"
LoaderDeactivate(l) == [l EXCEPT !.active = FALSE]
LoaderActivate(l) == [l EXCEPT !.active = TRUE]

\* the "skill" of an administrative message; "W" names no directory
MgrNames == MgrSkills \cup {"all", "W"}

\* dict item assignment and deletion
DictSet(d, k, v) == [x \in DOMAIN d \cup {k} |-> IF x = k THEN v ELSE d[x]]
DictDel(d, k) == [x \in DOMAIN d \ {k} |-> d[x]]

\* _load_skill: the loader enters skill_loaders whether load() succeeded,
\* failed or raised
load_skill ==
    /\ nMgr < MaxMgrOps
    /\ nMgr' = nMgr + 1
    /\ \E dir \in SkillDirs \ DOMAIN skill_loaders, load_status \in BOOLEAN :
         /\ skill_loaders' = DictSet(skill_loaders, dir,
                                [SkillLoader(dir) EXCEPT !.loaded = load_status])
         /\ mgrOp' = [op |-> "load", skill |-> Basename(dir), call |-> "None"]
    /\ mgrPub' = <<>>
    /\ UNCHANGED <<coreVars, svcVars, qVars>>

\* _unload_skill / _unload_removed_skills
unload_skill ==
    /\ nMgr < MaxMgrOps
    /\ nMgr' = nMgr + 1
    /\ \E dir \in DOMAIN skill_loaders :
         /\ skill_loaders' = DictDel(skill_loaders, dir)
         /\ mgrOp' = [op |-> "unload", skill |-> Basename(dir), call |-> "None"]
    /\ mgrPub' = <<>>
    /\ UNCHANGED <<coreVars, svcVars, qVars>>

\* skillmanager.deactivate
deactivate_skill ==
    /\ nMgr < MaxMgrOps
    /\ nMgr' = nMgr + 1
    /\ \E name \in MgrNames :
         /\ skill_loaders' =
              [d \in DOMAIN skill_loaders |->
                 IF name = skill_loaders[d].skill_id
                 THEN LoaderDeactivate(skill_loaders[d]) ELSE skill_loaders[d]]
         /\ mgrOp' = [op |-> "deactivate", skill |-> name, call |-> "None"]
    /\ mgrPub' = <<>>
    /\ UNCHANGED <<coreVars, svcVars, qVars>>

\* a test that spares no loader
SparedNever(l, skill_to_keep) == FALSE

\* deactivate_except, "if skill.skill_id != skill_to_keep" negated
Spared(l, skill_to_keep) == l.skill_id = skill_to_keep

\* skillmanager.keep
deactivate_except ==
    /\ nMgr < MaxMgrOps
    /\ nMgr' = nMgr + 1
    /\ \E skill_to_keep \in MgrNames :
         LET loaded_skill_file_names ==
                 { Basename(skill_dir) : skill_dir \in DOMAIN skill_loaders }
         IN
         /\ skill_loaders' =
              IF skill_to_keep \in loaded_skill_file_names
              THEN [d \in DOMAIN skill_loaders |->
                      IF Spared(skill_loaders[d], skill_to_keep)
                      THEN skill_loaders[d]
                      ELSE LoaderDeactivate(skill_loaders[d])]
              ELSE skill_loaders
         /\ mgrOp' = [op |-> "keep", skill |-> skill_to_keep, call |-> "None"]
    /\ mgrPub' = <<>>
    /\ UNCHANGED <<coreVars, svcVars, qVars>>

\* skillmanager.activate
activate_skill ==
    /\ nMgr < MaxMgrOps
    /\ nMgr' = nMgr + 1
    /\ \E name \in MgrNames :
         /\ skill_loaders' =
              [d \in DOMAIN skill_loaders |->
                 IF name \in {"all", skill_loaders[d].skill_id}
                    /\ ~skill_loaders[d].active
                 THEN LoaderActivate(skill_loaders[d]) ELSE skill_loaders[d]]
         /\ mgrOp' = [op |-> "activate", skill |-> name, call |-> "None"]
    /\ mgrPub' = <<>>
    /\ UNCHANGED <<coreVars, svcVars, qVars>>

\* what skill_loader.instance.converse does: it returns a value or raises
ConverseCalls == {"True", "False", "None", "raise"}

ConverseResponseTopic == "skill.converse.response"

\* _emit_converse_error and _emit_converse_response: the data of the reply;
\* a key the dict does not have reads "absent"
ErrorResponse(skill_id, error_msg) ==
    [topic |-> ConverseResponseTopic, skill_id |-> skill_id,
     result |-> "absent", error |-> error_msg]

ResultResponse(skill_id, result) ==
    [topic |-> ConverseResponseTopic, skill_id |-> skill_id,
     result |-> result, error |-> "absent"]

\* a manager that does not answer for a skill id it has no loader for
ConverseResponsesFound(loaders, skill_id, call) ==
    LET found == { d \in DOMAIN loaders : loaders[d].skill_id = skill_id } IN
    IF found = {} THEN <<>>
    ELSE LET skill_loader == loaders[CHOOSE d \in found : TRUE] IN
         IF ~skill_loader.loaded
         THEN <<ErrorResponse(skill_id,
                              "converse requested but skill not loaded")>>
         ELSE IF call = "raise"
         THEN <<ErrorResponse(skill_id, "exception in converse method")>>
         ELSE <<ResultResponse(skill_loader.skill_id, call)>>

\* handle_converse_request: what the manager emits for a request
ConverseResponses(loaders, skill_id, call) ==
    LET found == { d \in DOMAIN loaders : loaders[d].skill_id = skill_id } IN
    IF found = {}
    THEN <<ErrorResponse(skill_id, "skill id does not exist")>>
    ELSE LET skill_loader == loaders[CHOOSE d \in found : TRUE] IN
         IF ~skill_loader.loaded
         THEN <<ErrorResponse(skill_id,
                              "converse requested but skill not loaded")>>
         ELSE IF call = "raise"
         THEN <<ErrorResponse(skill_id, "exception in converse method")>>
         ELSE <<ResultResponse(skill_loader.skill_id, call)>>

\* skill.converse.request
handle_converse_request ==
    /\ nMgr < MaxMgrOps
    /\ nMgr' = nMgr + 1
    /\ \E skill_id \in MgrSkills \cup {"W"}, call \in ConverseCalls :
         /\ mgrPub' = ConverseResponses(skill_loaders, skill_id, call)
         /\ mgrOp' = [op |-> "converse", skill |-> skill_id, call |-> call]
    /\ UNCHANGED <<skill_loaders, coreVars, svcVars, qVars>>

NextMgr ==
    \/ load_skill
    \/ unload_skill
    \/ deactivate_skill
    \/ deactivate_except
    \/ activate_skill
    \/ handle_converse_request

SpecMgr == Init /\ [][NextMgr]_vars

\* ------------------------------------------------------------- UploadQueue
Loaders == {"A", "B"}

\* [e for e in self._queue if e != loader]
QueueWithout(queue, loader) == SelectSeq(queue, LAMBDA e : e # loader)

\* a lock that lets every thread in
LockFreeAlways(t) == TRUE

\* "with self.lock": a thread enters when no thread holds the lock
LockFree(t) == lock = "free"

QSet(t, f) == qth' = [qth EXCEPT ![t] = f]

QIdle(t) == qth[t].pc \in {"idle", "done"}

\* put, entering "with self.lock"
put_acquire(t) ==
    /\ QIdle(t)
    /\ nQueue < MaxQueueOps
    /\ nQueue' = nQueue + 1
    /\ LockFree(t)
    /\ lock' = t
    /\ \E loader \in Loaders :
         QSet(t, [IdleCall EXCEPT !.pc = "put_filter", !.op = "put",
                                  !.loader = loader, !.q0 = upload_queue])
    /\ UNCHANGED <<upload_queue, started, uploaded, owed>>
    /\ UNCHANGED <<coreVars, svcVars, mgrVars>>

\* put: self._queue = [e for e in self._queue if e != loader]
put_filter(t) ==
    /\ qth[t].pc = "put_filter"
    /\ upload_queue' = QueueWithout(upload_queue, qth[t].loader)
    /\ QSet(t, [qth[t] EXCEPT !.pc = "put_append"])
    /\ UNCHANGED <<started, lock, uploaded, owed, nQueue>>
    /\ UNCHANGED <<coreVars, svcVars, mgrVars>>

\* put: self._queue.append(loader), and the end of "with self.lock"
put_append(t) ==
    /\ qth[t].pc = "put_append"
    /\ upload_queue' = Append(upload_queue, qth[t].loader)
    /\ owed' = owed \cup {qth[t].loader}
    /\ lock' = "free"
    /\ QSet(t, [qth[t] EXCEPT !.pc = "done"])
    /\ UNCHANGED <<started, uploaded, nQueue>>
    /\ UNCHANGED <<coreVars, svcVars, mgrVars>>

\* start: self.started = True, then self.send()
start(t) ==
    /\ QIdle(t)
    /\ nQueue < MaxQueueOps
    /\ nQueue' = nQueue + 1
    /\ started' = TRUE
    /\ QSet(t, [IdleCall EXCEPT !.pc = "send_lock", !.op = "start"])
    /\ UNCHANGED <<upload_queue, lock, uploaded, owed>>
    /\ UNCHANGED <<coreVars, svcVars, mgrVars>>

\* stop: self.started = False
stop(t) ==
    /\ QIdle(t)
    /\ nQueue < MaxQueueOps
    /\ nQueue' = nQueue + 1
    /\ started' = FALSE
    /\ QSet(t, [IdleCall EXCEPT !.pc = "done", !.op = "stop"])
    /\ UNCHANGED <<upload_queue, lock, uploaded, owed>>
    /\ UNCHANGED <<coreVars, svcVars, mgrVars>>

\* a call of send that start did not make
send(t) ==
    /\ QIdle(t)
    /\ nQueue < MaxQueueOps
    /\ nQueue' = nQueue + 1
    /\ QSet(t, [IdleCall EXCEPT !.pc = "send_lock", !.op = "send"])
    /\ UNCHANGED <<upload_queue, started, lock, uploaded, owed>>
    /\ UNCHANGED <<coreVars, svcVars, mgrVars>>

\* send: under the lock, queue = self._queue and self._queue = []; an empty
\* queue ends the call ("if queue:")
send_swap(t) ==
    /\ qth[t].pc = "send_lock"
    /\ LockFree(t)
    /\ upload_queue' = <<>>
    /\ QSet(t, [qth[t] EXCEPT !.queue = upload_queue, !.i = 1,
                              !.pc = IF upload_queue = <<>> THEN "done"
                                     ELSE "send_loop"])
    /\ UNCHANGED <<started, lock, uploaded, owed, nQueue>>
    /\ UNCHANGED <<coreVars, svcVars, mgrVars>>

\* send: one turn of "for loader in queue": upload when started, else break
send_iter(t) ==
    /\ qth[t].pc = "send_loop"
    /\ LET f == qth[t]
           loader == f.queue[f.i]
       IN IF started
          THEN /\ uploaded' = Append(uploaded, loader)
               /\ owed' = owed \ {loader}
               /\ QSet(t, [f EXCEPT !.i = f.i + 1,
                                    !.pc = IF f.i = Len(f.queue) THEN "done"
                                           ELSE "send_loop"])
          ELSE /\ QSet(t, [f EXCEPT !.pc = "done"])
               /\ UNCHANGED <<uploaded, owed>>
    /\ UNCHANGED <<upload_queue, started, lock, nQueue>>
    /\ UNCHANGED <<coreVars, svcVars, mgrVars>>

\* SpecQueue: two threads calling put, start, stop and send of one
\* UploadQueue, interleaved statement by statement
NextQueue ==
    \/ \E t \in QThreads : put_acquire(t)
    \/ \E t \in QThreads : put_filter(t)
    \/ \E t \in QThreads : put_append(t)
    \/ \E t \in QThreads : start(t)
    \/ \E t \in QThreads : stop(t)
    \/ \E t \in QThreads : send(t)
    \/ \E t \in QThreads : send_swap(t)
    \/ \E t \in QThreads : send_iter(t)

SpecQueue == Init /\ [][NextQueue]_vars

\* ------------------------------------------- the service and the manager
\* a do_converse that reads "result" whatever else the data holds
AsReplyResult(response) ==
    [kind |-> "reply", error |-> "None", result |-> response.result = "True"]

\* a skill.converse.response as do_converse reads it: "error" when the data
\* has the key, else data.get("result", False)
AsReply(response) ==
    [kind |-> "reply",
     error |-> IF response.error = "absent" THEN "None" ELSE response.error,
     result |-> response.result = "True"]

\* what wait_for_response can return for a request about skill_id: the
\* response of handle_converse_request, or None when it comes too late
ManagerReplies(skill_id) ==
    {Timeout} \cup
    { AsReply(ConverseResponses(skill_loaders, skill_id, call)[1]) :
          call \in ConverseCalls }

\* do_converse when the skill manager is the one that answers
do_converse_mgr(t) ==
    do_converse_from(t, ManagerReplies(th[t].cands[th[t].ci][1]))

\* SpecConv: Spec with the skill manager on the bus: it loads and unloads
\* skills between the steps of the service and answers every
\* skill.converse.request from its loaders
ConvBounds ==
    /\ nEvents' <= MaxConvEvents
    /\ ticks' <= MaxConvTicks
    /\ nMgr' <= MaxConvMgrOps
    /\ \/ Len(th'[MainThread].trace) <= MaxConvDepth
       \/ th'[MainThread].aborted = "no" /\ ~Truthy(th'[MainThread].match)

NextConv ==
    \/ Tick /\ ConvBounds
    \/ handle_utterance(MainThread) /\ ConvBounds
    \/ converse_assign(MainThread)
    \/ converse_copy(MainThread)
    \/ converse_request(MainThread)
    \/ do_converse_mgr(MainThread)
    \/ run_matchers(MainThread) /\ ConvBounds
    \/ remove_scan(MainThread)
    \/ remove_do(MainThread)
    \/ add_stamp(MainThread)
    \/ add_insert(MainThread)
    \/ reset_converse(MainThread) /\ ConvBounds
    \/ load_skill /\ ConvBounds
    \/ unload_skill /\ ConvBounds

SpecConv == Init /\ [][NextConv]_vars

\* SpecApi: the handlers of the service's other messages (queries,
\* registration, context, latency), one event at a time, on a registry the
\* program can hold, next to a text-to-speech output that starts and stops
\* on its own.
InitApiSpec ==
    /\ now = 0
    /\ ticks = 0
    /\ nEvents = 0
    /\ th = [t \in Threads |-> IdleFrame]
    /\ hist = <<>>
    /\ reg0 \in {<<>>, <<Entry("X", 0)>>, <<Entry("Y", 0), Entry("X", 0)>>}
    /\ active_skills = reg0
    /\ InitApi

NextApi ==
    \/ handle_get_intent(MainThread)
    \/ handle_get_active_skills(MainThread)
    \/ handle_register_vocab(MainThread)
    \/ handle_vocab_manifest(MainThread)
    \/ handle_get_padatious(MainThread)
    \/ handle_add_context(MainThread)
    \/ handle_response_latency(MainThread)
    \/ wait_while_speaking(MainThread)
    \/ latency_speak(MainThread)
    \/ SpeechStart
    \/ SpeechEnd

SpecApi == InitApiSpec /\ [][NextApi]_vars

\* SpecReg: the registry operations of IntentService applied one after the
\* other to a registry the program can hold (newest first, one entry per
\* skill id); hist lists the operations applied.
RegSkills == Skills \cup {"Z"}

Ids(list) == [i \in 1..Len(list) |-> list[i][1]]

Unique(list) ==
    \A i, j \in 1..Len(list) : i # j => list[i][1] # list[j][1]

NewestFirst(list) ==
    \A i, j \in 1..Len(list) : i < j => list[i][2] >= list[j][2]

InitReg ==
    /\ now = 0
    /\ ticks = 0
    /\ nEvents = 0
    /\ th = [t \in Threads |-> IdleFrame]
    /\ hist = <<>>
    /\ reg0 \in {<<>>} \cup { <<Entry(a, 0)>> : a \in RegSkills }
                 \cup { <<Entry(a, 0), Entry(b, 0)>> : a, b \in RegSkills }
    /\ Unique(reg0)
    /\ active_skills = reg0
    /\ InitApi

RegAdd ==
    /\ Len(hist) < MaxOps
    /\ \E s \in RegSkills \cup {""} :
         /\ active_skills' = add_active_skill(active_skills, s, now)
         /\ hist' = Append(hist, <<"add", s>>)
    /\ UNCHANGED <<now, ticks, nEvents, th, reg0, apiVars>>

RegRemove ==
    /\ Len(hist) < MaxOps
    /\ \E s \in RegSkills :
         /\ active_skills' = remove_active_skill(active_skills, s)
         /\ hist' = Append(hist, <<"remove", s>>)
    /\ UNCHANGED <<now, ticks, nEvents, th, reg0, apiVars>>

RegPrune ==
    /\ Len(hist) < MaxOps
    /\ active_skills' = PruneExpired(active_skills, now)
    /\ hist' = Append(hist, <<"prune", "">>)
    /\ UNCHANGED <<now, ticks, nEvents, th, reg0, apiVars>>

NextReg == Tick \/ RegAdd \/ RegRemove \/ RegPrune

SpecReg == InitReg /\ [][NextReg]_vars

\* SpecRegThreads: activations on the worker threads, statement by statement,
\* from the empty registry, and remove_active_skill applied while no handler
\* is running.
\* handle_utterance from the end of its loop over match_funcs, for an event
\* that a matcher answers with an intent of skill s
activate(t) ==
    /\ th[t].pc \in {"idle", "done"}
    /\ nEvents < MaxThreadEvents
    /\ nEvents' = nEvents + 1
    /\ \E s \in Skills :
         Set(t, AfterLoop([IdleFrame EXCEPT
                             !.handler = "utterance",
                             !.utterances = <<"what's the time">>,
                             !.utterance = "what's the time",
                             !.before = active_skills,
                             !.lang = get_message_lang(NoLang),
                             !.match = IntentMatch("match_intent", "intent",
                                                   "data", s)]))
    /\ UNCHANGED <<active_skills, now, ticks, hist, reg0, apiVars>>

Quiet == \A t \in Threads : th[t].pc \in {"idle", "done"}

NextRegThreads ==
    \/ \E t \in Threads : activate(t)
    \/ \E t \in Threads : remove_scan(t)
    \/ \E t \in Threads : remove_do(t)
    \/ \E t \in Threads : add_stamp(t)
    \/ \E t \in Threads : add_insert(t)
    \/ Quiet /\ RegRemove

SpecRegThreads == Init /\ [][NextRegThreads]_vars

\* ================================================================== claims
FailureTopic == "complete_intent_failure"

Failures(f) == Cardinality({i \in DOMAIN f.pub : f.pub[i].topic = FailureTopic})
Intents(f)  == Cardinality({i \in DOMAIN f.pub : f.pub[i].topic # FailureTopic})

Resolving(t) == th[t].handler = "utterance"
Resolved(t)  == Resolving(t) /\ th[t].pc = "done"
Finished(t)  == Resolved(t) /\ th[t].aborted = "no"

\* some matcher called so far returned a result
SomeResult(f) == \E i \in DOMAIN f.trace : Truthy(f.trace[i][2])
\* every matcher of the chain was called and returned nothing
AllNone(f) ==
    /\ Len(f.trace) = Len(match_funcs)
    /\ \A i \in DOMAIN f.trace : f.trace[i][2] = None

\* C1: one run of handle_utterance publishes at most one targeted intent
\* message and at most one complete_intent_failure message, and never both.
C1_AtMostOneMessage ==
    \A t \in Threads :
        Resolving(t) =>
            /\ Intents(th[t]) <= 1
            /\ Failures(th[t]) <= 1
            /\ Intents(th[t]) + Failures(th[t]) <= 1

C1_Witness ==
    \E t \in Threads :
        /\ Finished(t)
        /\ Truthy(th[t].match)
        /\ Intents(th[t]) = 1
        /\ Failures(th[t]) = 0

\* C2 as claimed: every resolution that does not abort publishes a targeted
\* intent message or complete_intent_failure, whichever matcher wins.
C2_NeverNeither ==
    \A t \in Threads : Finished(t) => Len(th[t].pub) >= 1

\* C2 as amended: a resolution that does not abort publishes nothing exactly
\* when its winning match carries no intent_type (Converse's never does);
\* otherwise it publishes one message, the intent or the failure.
C2_NeitherOnlyWithoutIntentType ==
    \A t \in Threads :
        Finished(t) =>
            /\ Len(th[t].pub) = 0 <=>
                   (Truthy(th[t].match) /\ th[t].match.intent_type = "None")
            /\ Len(th[t].pub) <= 1

C2_Witness ==
    \E t \in Threads :
        /\ Finished(t)
        /\ th[t].match.intent_service = "Converse"
        /\ th[t].pub = <<>>

\* C3: complete_intent_failure is published exactly once when all nine
\* matchers return no result, and never for an event for which some matcher
\* returned a result.
C3_FailureIffAllNone ==
    \A t \in Threads :
        /\ (Resolved(t) /\ AllNone(th[t])) => Failures(th[t]) = 1
        /\ (Resolving(t) /\ SomeResult(th[t])) => Failures(th[t]) = 0

C3_Witness ==
    \E t \in Threads :
        /\ Resolved(t)
        /\ AllNone(th[t])
        /\ th[t].pub = send_complete_intent_failure

\* C4: when an active, non-expired skill accepts the utterance through
\* converse and Padatious high would match it too, the result is the
\* Converse match: no intent is published and no later matcher is consulted.
ConverseAccepted(f) ==
    /\ Len(f.trace) >= 1
    /\ Truthy(f.trace[1][2])
    /\ Len(f.reqs) >= 1
    /\ Fresh(f.reqs[Len(f.reqs)], f.startTime)

C4_ConverseWins ==
    \A t \in Threads :
        (Resolving(t) /\ ConverseAccepted(th[t]) /\ th[t].padHigh = "match") =>
            /\ th[t].match =
                   IntentMatch("Converse", "None", "None",
                               th[t].reqs[Len(th[t].reqs)][1])
            /\ Len(th[t].trace) = 1
            /\ th[t].pub = <<>>

C4_Witness ==
    \E t \in Threads :
        /\ Resolved(t)
        /\ ConverseAccepted(th[t])
        /\ th[t].padHigh = "match"
        /\ th[t].match.intent_service = "Converse"

\* C5: the matchers are called in the order Converse, Padatious high, Adapt,
\* QA, Fallback high, Padatious medium, Fallback medium, Padatious low,
\* Fallback low; the result is that of the first one that returns a result
\* and no matcher after it is called.
C5_Order == <<"Converse", "match_high", "match_intent", "match", "high_prio",
              "match_medium", "medium_prio", "match_low", "low_prio">>

C5_FirstMatchWins ==
    \A t \in Threads :
        Resolving(t) =>
            LET f == th[t] IN
            /\ \A i \in DOMAIN f.trace :
                 /\ f.trace[i][1] = i
                 /\ i < Len(f.trace) => f.trace[i][2] = None
                 /\ Truthy(f.trace[i][2]) =>
                        /\ f.trace[i][2].intent_service = C5_Order[i]
                        /\ f.match = f.trace[i][2]
            /\ Truthy(f.match) => SomeResult(f)
            /\ (Finished(t) /\ ~Truthy(f.match)) => AllNone(f)

C5_Witness ==
    \E t \in Threads :
        /\ Finished(t)
        /\ Len(th[t].trace) = 6
        /\ th[t].match.intent_service = "match_medium"

\* C6: from a registry with neither X nor Y, add_active_skill(X),
\* add_active_skill(Y), add_active_skill(X) leaves X then Y in front, one
\* entry for X; add_active_skill(s), s not empty, puts s at the front and
\* keeps the other entries in their order.
C6_ActivateRefreshes ==
    /\ [][\A s \in RegSkills :
            hist' = Append(hist, <<"add", s>>) =>
               /\ Len(active_skills') >= 1
               /\ active_skills'[1][1] = s
               /\ Tail(active_skills') =
                     SelectSeq(active_skills, LAMBDA e : e[1] # s)]_vars
    /\ [](\A x, y \in RegSkills :
            (/\ x # y
             /\ hist = <<<<"add", x>>, <<"add", y>>, <<"add", x>>>>
             /\ \A i \in DOMAIN reg0 : reg0[i][1] \notin {x, y})
            => Ids(active_skills) = <<x, y>> \o Ids(reg0))

C6_Witness ==
    /\ hist = <<<<"add", "X">>, <<"add", "Y">>, <<"add", "X">>>>
    /\ reg0 = <<Entry("Z", 0)>>
    /\ Ids(active_skills) = <<"X", "Y", "Z">>

\* C7: after any sequence of registry operations active_skills holds at most
\* one entry per skill id.
C7_OneEntryPerSkill == Unique(active_skills)

\* C8: active_skills is ordered most-recently-activated first: the
\* timestamps do not increase from the front to the back.
C8_NewestFirst == NewestFirst(active_skills)

\* C9: registry mutations of concurrently running handlers exclude each
\* other: the registry they leave is one a serial execution of their
\* activate, deactivate and prune operations produces (a single entry per
\* skill, newest first, and no remove of an entry that is already gone).
Mutating(t) == th[t].pc \in {"prune_assign", "rm_scan", "rm_do", "stamp", "insert"}

C9_Serializable ==
    (\A t \in Threads : ~Mutating(t)) =>
        /\ \A t \in Threads : th[t].aborted # "ValueError"
        /\ \A s \in Skills :
             Cardinality({i \in DOMAIN active_skills : active_skills[i][1] = s}) <= 1
        /\ \A i \in DOMAIN active_skills :
             i > 1 => active_skills[i - 1][2] >= active_skills[i][2]

\* C10: no skill.converse.request goes, on any path, to a skill whose entry
\* is older than converse_timeout minutes when the converse attempt starts.
C10_NoRequestToExpired ==
    \A t \in Threads :
        \A i \in DOMAIN th[t].reqs : Fresh(th[t].reqs[i], th[t].startTime)

\* Under serial delivery the registry keeps one entry per skill, newest first.
SerialRegistryInv == Unique(active_skills) /\ NewestFirst(active_skills)

\* ------------------------------------------------------------------- C11
\* age of a registry entry, in seconds, at time t
Age(entry, t) == t - entry[2]

Expired(entry, t) == Age(entry, t) > converse_timeout * SecondsPerMinute

\* the step of thread t is the assignment that ends _converse's pruning
PruneStep(t) == th[t].pc = "prune_assign" /\ th'[t].pc = "copy"

\* the step of thread t is a run of handle_get_active_skills
QueryStep(t) == nEvents' # nEvents /\ th'[t].handler = "get_active_skills"

\* C11: the pruning at the start of _converse removes every entry older than
\* converse_timeout minutes and keeps the others in their order, no expired
\* entry is a converse candidate of the utterance, and
\* handle_get_active_skills answers with the registry and leaves it as it is.
C11_PruneOnlyInConverse ==
    /\ [][\A t \in Threads :
            /\ PruneStep(t) =>
                 active_skills' =
                     SelectSeq(active_skills,
                               LAMBDA e : ~Expired(e, th[t].startTime))
            /\ QueryStep(t) =>
                 /\ active_skills' = active_skills
                 /\ th'[t].skills = active_skills]_vars
    /\ [](\A t \in Threads :
            Resolving(t) =>
                \A i \in DOMAIN th[t].cands :
                    ~Expired(th[t].cands[i], th[t].startTime))

\* an utterance whose pruning dropped one of two entries and kept the one
\* that is exactly converse_timeout minutes old
C11_Witness ==
    \E t \in Threads :
        /\ Resolving(t)
        /\ th[t].pc = "copy"
        /\ Len(th[t].before) = 2
        /\ Len(active_skills) = 1
        /\ Age(active_skills[1], th[t].startTime)
               = converse_timeout * SecondsPerMinute

\* ------------------------------------------------------------------- C12
\* the reply says the skill handled the utterance
Handled(r) == r.kind = "reply" /\ r.error = "None" /\ r.result

\* the step of thread t takes the candidates of a converse attempt
CopyStep(t) == th[t].pc = "copy" /\ th'[t].pc # "copy"

\* the step of thread t sends a skill.converse.request
RequestStep(t) == Len(th'[t].reqs) = Len(th[t].reqs) + 1

\* C12: _converse asks the skills of the registry one at a time in registry
\* order, the most recently activated first; a request goes out only when
\* the one before it has been answered or has timed out, and never after a
\* truthy answer; no skill is asked twice for one event.
C12_OneAtATimeInOrder ==
    /\ [][\A t \in Threads :
            (th'[t].handler = "utterance") =>
                /\ CopyStep(t) => th'[t].cands = active_skills
                /\ RequestStep(t) =>
                     /\ th'[t].reqs[Len(th'[t].reqs)]
                            = th[t].cands[Len(th[t].reqs) + 1]
                     /\ Len(th[t].reqs) >= 1 =>
                            /\ th[t].reply # NoReply
                            /\ ~Handled(th[t].reply)]_vars
    /\ [](\A t \in Threads :
            Resolving(t) =>
                /\ NewestFirst(th[t].reqs)
                /\ \A i, j \in DOMAIN th[t].reqs :
                       i # j => th[t].reqs[i][1] # th[t].reqs[j][1]
                /\ th[t].pc = "converse" => Len(th[t].reqs) = th[t].ci - 1
                /\ th[t].pc = "await" =>
                       Len(th[t].reqs) = th[t].ci /\ th[t].reply = NoReply)

\* the second request of an utterance, to the skill activated less recently,
\* waiting for its answer
C12_Witness ==
    \E t \in Threads :
        /\ Resolving(t)
        /\ th[t].pc = "await"
        /\ Len(th[t].reqs) = 2
        /\ th[t].reqs[1][2] > th[t].reqs[2][2]

\* ------------------------------------------------------------------- C13
\* the winning match of the finished resolution of thread t names a skill
WonWithSkill(t) ==
    /\ Finished(t)
    /\ Truthy(th[t].match)
    /\ th[t].match.skill_id \notin {"None", ""}

\* the resolution of thread t has taken its converse candidates
CandidatesTaken(t) ==
    Resolving(t) /\ th[t].pc \notin {"prune_assign", "copy"}
                 /\ th[t].aborted # "IndexError"

\* at the end of a resolution won with a skill_id the skill has one registry
\* entry, at the front, stamped during the resolution
C13_FrontAtEnd ==
    \A t \in Threads :
        WonWithSkill(t) =>
            /\ Len(active_skills) >= 1
            /\ active_skills[1][1] = th[t].match.skill_id
            /\ active_skills[1][2] >= th[t].startTime
            /\ active_skills[1][2] <= now
            /\ Cardinality({i \in DOMAIN active_skills :
                               active_skills[i][1] = th[t].match.skill_id}) = 1

C14_IntentMessage ==
    \A t \in Threads :
        (Finished(t) /\ Truthy(th[t].match)) =>
            IF th[t].match.intent_type # "None"
            THEN th[t].pub = <<[topic      |-> th[t].match.intent_type,
                                data       |-> th[t].match.intent_data,
                                utterances |-> th[t].utterances[1]]>>
            ELSE th[t].pub = <<>>

\* a structured matcher's match with intent_type and intent_data, published
C14_Witness ==
    \E t \in Threads :
        /\ Finished(t)
        /\ th[t].match.intent_service # "Converse"
        /\ th[t].match.intent_type = "intent"
        /\ th[t].match.intent_data = "data"
        /\ Len(th[t].utterances) = 2
        /\ Len(th[t].pub) = 1
        /\ th[t].pub[1].utterances = "what's the time"

\* ------------------------------------------------------------------- C15
\* C15 as claimed: a resolution in which no matcher of the chain returns a
\* result leaves the registry as it was before the event, entry for entry,
\* and publishes no targeted intent message.
C15_NoMatchNoChange ==
    \A t \in Threads :
        (Resolved(t) /\ AllNone(th[t])) =>
            /\ active_skills = th[t].before
            /\ Intents(th[t]) = 0

\* C15 as amended: such a resolution changes the registry only by what its
\* converse attempt does: the entries older than converse_timeout minutes
\* are pruned and the skills whose converse reply is the error "skill id
\* does not exist" are removed; the other entries keep their order and
\* timestamps.  No targeted intent message is published.
C15_NoMatchOnlyPrunes ==
    \A t \in Threads :
        (Resolved(t) /\ AllNone(th[t])) =>
            /\ active_skills =
                   SelectSeq(th[t].before,
                             LAMBDA e : /\ ~Expired(e, th[t].startTime)
                                        /\ e[1] \notin th[t].gone)
            /\ Intents(th[t]) = 0

\* no matcher matched; of two entries one was pruned and the other, asked
\* and not evicted, is still there
C15_Witness ==
    \E t \in Threads :
        /\ Resolved(t)
        /\ AllNone(th[t])
        /\ Failures(th[t]) = 1
        /\ Len(th[t].before) = 2
        /\ Len(th[t].reqs) = 1
        /\ active_skills = <<th[t].before[1]>>

\* ------------------------------------------------------------------- C16
\* the entry the last skill.converse.request of thread t went to
Asked(t) == th[t].reqs[Len(th[t].reqs)]

\* C16: when a skill answers its converse request with a truthy result and
\* no error, the resolution's match is the Converse one (no intent_type, no
\* intent_data, the skill's id), handle_utterance publishes neither an
\* intent nor the failure message, and when it ends the skill's single
\* entry is at the front of the registry with a timestamp taken anew.
C16_ConverseHandled ==
    \A t \in Threads :
        (Resolving(t) /\ Handled(th[t].reply)) =>
            /\ th[t].match = [intent_service |-> "Converse",
                              intent_type    |-> "None",
                              intent_data    |-> "None",
                              skill_id       |-> Asked(t)[1]]
            /\ th[t].trace = <<<<1, th[t].match>>>>
            /\ th[t].pub = <<>>
            /\ th[t].aborted = "no"
            /\ th[t].pc = "done" =>
                   /\ active_skills[1][1] = Asked(t)[1]
                   /\ active_skills[1][2] >= th[t].startTime
                   /\ active_skills[1][2] >= Asked(t)[2]
                   /\ \A i \in 2..Len(active_skills) :
                          active_skills[i][1] # Asked(t)[1]

\* the second of two candidates handled the utterance and moved from behind
\* the first to the front, with a later timestamp
C16_Witness ==
    \E t \in Threads :
        /\ Resolved(t)
        /\ Handled(th[t].reply)
        /\ Len(th[t].reqs) = 2
        /\ Len(active_skills) = 2
        /\ active_skills[1][1] = th[t].reqs[2][1]
        /\ active_skills[1][2] > th[t].reqs[2][2]
        /\ active_skills[2] = th[t].reqs[1]

\* ------------------------------------------------------------------- C17
\* the converse attempt of thread t is about to go on, with the next
\* candidate or the next matcher
GoingOn(t) == th[t].pc \in {"converse", "await", "matchers"}

\* C17: a converse reply with an error field counts as "did not handle",
\* whatever its result field says: no match, nothing published, the attempt
\* goes on; and a skill whose reply said "skill id does not exist" is out of
\* the registry by the time the attempt goes on.
C17_ErrorReply ==
    \A t \in Threads :
        /\ (Resolving(t) /\ th[t].reply.error # "None") =>
               /\ th[t].match = None
               /\ th[t].trace \in {<<>>, <<<<1, None>>>>}
               /\ th[t].pub = <<>>
               /\ th[t].pc \in {"rm_scan", "rm_do", "converse", "matchers"}
               /\ th[t].reply.error # "skill id does not exist" =>
                      th[t].pc \in {"converse", "matchers"}
        /\ GoingOn(t) =>
               \A i \in DOMAIN active_skills :
                   active_skills[i][1] \notin th[t].gone

\* a reply with a truthy result and the error "skill id does not exist":
\* the skill is gone from the registry and the next candidate is up
C17_Witness ==
    \E t \in Threads :
        /\ Resolving(t)
        /\ th[t].reply.error = "skill id does not exist"
        /\ th[t].reply.result
        /\ th[t].pc = "converse"
        /\ th[t].ci = 2
        /\ active_skills = <<th[t].cands[2]>>

\* ------------------------------------------------------------------- C18
\* C18: a converse request that times out counts as "did not handle": no
\* match comes of it and nothing is published, the attempt goes on with the
\* next candidate or the next matcher, the skill is not asked again for the
\* event, and its registry entry stays as it is.
C18_TimeoutGoesOn ==
    \A t \in Threads :
        /\ (Resolving(t) /\ th[t].reply = Timeout) =>
               /\ th[t].match = None
               /\ th[t].trace \in {<<>>, <<<<1, None>>>>}
               /\ th[t].pub = <<>>
               /\ th[t].pc \in {"converse", "matchers"}
               /\ th[t].ci = Len(th[t].reqs) + 1
               /\ \E i \in DOMAIN active_skills : active_skills[i] = Asked(t)
        /\ (Resolving(t) /\ GoingOn(t)) =>
               /\ \A i, j \in DOMAIN th[t].reqs :
                      th[t].reqs[i][1] = th[t].reqs[j][1] => i = j
               /\ \A i \in DOMAIN th[t].reqs :
                      th[t].reqs[i][1] \notin th[t].gone =>
                          \E k \in DOMAIN active_skills :
                              active_skills[k] = th[t].reqs[i]

\* the first of two candidates timed out; both entries are still in the
\* registry and the second candidate is up
C18_Witness ==
    \E t \in Threads :
        /\ Resolving(t)
        /\ th[t].reply = Timeout
        /\ th[t].pc = "converse"
        /\ th[t].ci = 2
        /\ Len(th[t].cands) = 2
        /\ active_skills = th[t].cands

\* ------------------------------------------------------------------- C19
\* a matcher called by the resolution of thread t raised
MatcherRaised(t) == \E i \in DOMAIN th[t].trace : th[t].trace[i][2] = Raise

\* C19: a matcher that raises counts as "no match" and the chain goes on
\* with the next matcher: the resolution ends with the match of a later
\* matcher, published as usual, or, every matcher having been called, with
\* complete_intent_failure.
C19_MatcherFailureSkipped ==
    \A t \in Threads :
        (Resolved(t) /\ MatcherRaised(t)) =>
            /\ \A i \in DOMAIN th[t].trace :
                   (th[t].trace[i][2] = Raise /\ i < Len(match_funcs))
                       => Len(th[t].trace) > i
            /\ \/ Truthy(th[t].match)
               \/ Len(th[t].trace) = Len(match_funcs) /\ Failures(th[t]) = 1

\* ------------------------------------------------------------------- C20
\* the resolution of thread t ended in the except clause for a failure that
\* no matcher raised
PipelineFailure(t) == Resolved(t) /\ th[t].aborted \notin {"no", "matcher"}

\* C20: a resolution that fails outside the matchers, as for an event whose
\* utterances list is empty or missing, is caught: the handler returns,
\* having asked no skill and called no matcher, with neither an intent
\* message nor complete_intent_failure published and the registry as it was.
C20_PipelineFailureSilent ==
    \A t \in Threads :
        PipelineFailure(t) =>
            /\ th[t].pub = <<>>
            /\ th[t].reqs = <<>>
            /\ th[t].trace = <<>>
            /\ active_skills = th[t].before

\* an event without utterances, delivered while the registry holds an entry
\* that the pruning of _converse would have dropped
C20_Witness ==
    \E t \in Threads :
        /\ PipelineFailure(t)
        /\ th[t].utterances = <<>>
        /\ th[t].aborted = "IndexError"
        /\ Len(active_skills) >= 1
        /\ Expired(active_skills[1], now)

\* ------------------------------------------------------------------- C21
\* every resolution that has started comes to its end
C21_Terminates == \A t \in Threads : Resolving(t) ~> Resolved(t)

\* C21 as claimed: every started resolution terminates, and it ends with a
\* winning match or with complete_intent_failure published, given that every
\* converse request is answered or times out.
C21_EndsInMatchOrFailure ==
    /\ C21_Terminates
    /\ [](\A t \in Threads :
            Resolved(t) => (Truthy(th[t].match) \/ Failures(th[t]) = 1))

\* C21 as amended: every started resolution terminates; it ends with a
\* winning match, with complete_intent_failure published or, when an
\* exception was raised on the way, in the except clause with no match and
\* nothing published.
C21_EndsInMatchFailureOrAbort ==
    /\ C21_Terminates
    /\ [](\A t \in Threads :
            Resolved(t) =>
                \/ th[t].aborted = "no" /\ Truthy(th[t].match)
                                        /\ Failures(th[t]) = 0
                \/ th[t].aborted = "no" /\ th[t].match = None
                                        /\ th[t].pub = send_complete_intent_failure
                \/ th[t].aborted # "no" /\ th[t].pub = <<>>)

\* a resolution that asked two skills, was turned down twice and then ended
\* with a structured matcher's match
C21_Witness ==
    \E t \in Threads :
        /\ Finished(t)
        /\ Len(th[t].reqs) = 2
        /\ Len(th[t].trace) >= 2
        /\ Truthy(th[t].match)


\* ------------------------------------------------------------------- C22
\* the step in which the service handles one query or registration message
ApiStep(h) ==
    /\ nEvents' = nEvents + 1
    /\ th'[MainThread].handler = h

\* the positions of Converse and of the Fallback tiers in the priority list
ConverseOrFallback ==
    { i \in DOMAIN match_funcs :
        match_funcs[i] \in {"_converse", "high_prio", "medium_prio", "low_prio"} }

\* C22: handling intent.service.intent.get has no side effect: it calls
\* neither Converse nor a Fallback tier, sends no skill.converse.request,
\* leaves the registry as it is, and publishes nothing but the reply of the
\* query (no intent message to a skill, no complete_intent_failure).
C22_GetIntentPure ==
    [][ ApiStep("get_intent") =>
          LET f == th'[MainThread] IN
          /\ active_skills' = active_skills
          /\ f.reqs = <<>>
          /\ \A k \in DOMAIN f.trace : f.trace[k][1] \notin ConverseOrFallback
          /\ \A k \in DOMAIN f.pub : f.pub[k].topic = IntentReplyTopic ]_vars

\* a query answered with a match, while skills are in the registry
C22_Witness ==
    /\ th[MainThread].handler = "get_intent"
    /\ Truthy(th[MainThread].match)
    /\ th[MainThread].match.intent_type # "None"
    /\ Len(th[MainThread].trace) >= 2
    /\ active_skills # <<>>


\* ------------------------------------------------------------------- C23
\* the reply topic of a query handler
ReplyTopic(h) ==
    IF h = "get_intent" THEN IntentReplyTopic
    ELSE IF h = "vocab_manifest" THEN VocabManifestTopic
    ELSE "intent.service.active_skills.reply"

QueryHandlers == {"get_intent", "vocab_manifest", "get_active_skills"}

\* C23: a query that the service has handled (a well-formed one, whose
\* matchers all returned) got exactly one reply, on its reply topic,
\* whatever the matchers returned.
C23_ExactlyOneReply ==
    LET f == th[MainThread] IN
    (f.pc = "done" /\ f.handler \in QueryHandlers /\ f.aborted = "no")
        => /\ Len(f.pub) = 1
           /\ f.pub[1].topic = ReplyTopic(f.handler)


\* ------------------------------------------------------------------- C24
\* C24: the registered-vocabulary log is append-only: a register_vocab
\* message appends its payload as it is (also when the log holds an equal
\* entry already), no other step changes the log, and a vocabulary manifest
\* query replies with the whole log, every entry as registered, in
\* registration order.
C24_VocabAppendOnly ==
    [][ /\ ApiStep("register_vocab") =>
              registered_vocab' = Append(registered_vocab, th'[MainThread].data)
        /\ ~ApiStep("register_vocab") => registered_vocab' = registered_vocab
        /\ ApiStep("vocab_manifest") =>
              /\ th'[MainThread].vocab = registered_vocab
              /\ th'[MainThread].pub = <<Msg(VocabManifestTopic, "vocab")>> ]_vars

\* a manifest reply that carries the same payload twice
C24_Witness ==
    /\ th[MainThread].handler = "vocab_manifest"
    /\ Len(th[MainThread].vocab) = 2
    /\ th[MainThread].vocab[1] = th[MainThread].vocab[2]
    /\ th[MainThread].vocab[1] \in VocabPayloads


\* ------------------------------------------------------------------- C25
\* the textual form of the words that are not strings, written out
TextualForm(w) ==
    CASE w = IntWord(0)      -> "0"
      [] w = IntWord(7)      -> "7"
      [] w = IntWord(12)     -> "12"
      [] w = IntWord(-3)     -> "-3"
      [] w = BoolWord(TRUE)  -> "True"
      [] w = BoolWord(FALSE) -> "False"
      [] OTHER               -> w.s

\* C25: after add_context with a word that is not a string (any number
\* included) the injected entry has the textual form of the word as its
\* token, match and key, and confidence 1.0; with no word at all the token
\* is the empty string.
C25_WordAsText ==
    LET f == th[MainThread] IN
    (f.pc = "done" /\ f.handler = "add_context" /\ f.data.word.type # "str")
        => /\ context # <<>>
           /\ context[1].confidence = "1.0"
           /\ context[1].data = <<<<TextualForm(f.data.word), f.data.context>>>>
           /\ context[1].match = TextualForm(f.data.word)
           /\ context[1].key = TextualForm(f.data.word)


\* ------------------------------------------------------------------- C26
\* C26: add_active_skill with an empty skill id changes nothing: the
\* registry keeps its entries, their order and their timestamps.
C26_EmptyIdNoOp ==
    [][ hist' = Append(hist, <<"add", "">>) => active_skills' = active_skills ]_vars

\* an add with the empty id applied to a registry of two skills, after time
\* has passed
C26_Witness ==
    /\ hist # <<>>
    /\ hist[Len(hist)] = <<"add", "">>
    /\ Len(active_skills) = 2
    /\ now > 0


\* ------------------------------------------------------------------- C27
\* the registry without the entries of skill s
Without(list, s) == SelectSeq(list, LAMBDA e : e[1] # s)

\* C27: remove_active_skill(s) is exact and idempotent: it leaves no entry
\* for s and every other entry where it was, with its timestamp; a call for
\* a skill that has no entry, a second call among them, changes nothing.
C27_RemoveExact ==
    [][ \A s \in RegSkills :
          hist' = Append(hist, <<"remove", s>>) =>
             /\ active_skills' = Without(active_skills, s)
             /\ remove_active_skill(active_skills', s) = active_skills' ]_vars


\* ------------------------------------------------------------------- C28
SpeakMsg == Msg("speak", "taking_too_long")

\* the step in which the latency handler publishes
SpeakStep ==
    /\ th[MainThread].handler = "latency"
    /\ nEvents' = nEvents
    /\ th'[MainThread].pub # th[MainThread].pub

\* wait, one speak message, wait: what the handler has published at each of
\* its positions
LatencyOrder(f) ==
    f.handler = "latency" =>
        /\ f.pc \in {"wait_before", "emit", "wait_after", "done"}
        /\ f.pc \in {"wait_before", "emit"} => f.pub = <<>>
        /\ f.pc \in {"wait_after", "done"} => f.pub = <<SpeakMsg>>

\* C28 as stated: wait, exactly one speak message, wait, and the speak
\* message is never published while speech is playing.
C28_NeverWhileSpeaking ==
    [][ /\ LatencyOrder(th'[MainThread])
        /\ SpeakStep => ~speaking ]_vars

\* C28: on the "taking too long" signal the handler waits until the speech
\* output has stopped, then publishes exactly one speak message, then waits
\* again until the speech output has stopped and returns; speech that plays
\* while the message is published has started after the first wait found the
\* output silent.
C28_WaitSpeakWait ==
    [][ /\ LatencyOrder(th'[MainThread])
        /\ SpeakStep =>
              /\ th[MainThread].pc = "emit"
              /\ speaking => nSpeech > th[MainThread].heard
        /\ (th[MainThread].handler = "latency" /\ nEvents' = nEvents
              /\ th'[MainThread].pc = "done" /\ th[MainThread].pc # "done") =>
              th[MainThread].pc = "wait_after" /\ ~speaking ]_vars

\* the notification published after a first wait that sat out a speech,
\* the second wait held up by speech that plays now
C28_Witness ==
    /\ th[MainThread].handler = "latency"
    /\ th[MainThread].pc = "wait_after"
    /\ th[MainThread].pub = <<SpeakMsg>>
    /\ th[MainThread].heard >= 1
    /\ speaking


\* ------------------------------------------------------------------- C29
\* C29: on core.speech.recognition.unknown reset_converse sends one
\* skill.converse.request with no utterance to every skill that is in the
\* registry, in registry order, also to the skills that come after one that
\* replied with a truthy result or with an error; it calls no matcher and
\* publishes neither an intent message nor complete_intent_failure.
C29_ResetAsksAll ==
    LET f == th[MainThread] IN
    f.handler = "reset" =>
        /\ f.pub = <<>>
        /\ f.trace = <<>>
        /\ Len(f.reqMsgs) <= Len(f.before)
        /\ \A i \in DOMAIN f.reqMsgs :
             /\ f.reqMsgs[i].skill_id = f.before[i][1]
             /\ f.reqMsgs[i].utterances = "None"
        /\ (f.pc = "done" /\ f.aborted = "no") => Len(f.reqMsgs) = Len(f.before)

\* the first of two skills has replied with a truthy result and no error,
\* and the handler is about to ask the second
C29_Witness ==
    /\ th[MainThread].handler = "reset"
    /\ th[MainThread].pc = "converse"
    /\ th[MainThread].ci = 2
    /\ Len(th[MainThread].reqMsgs) = 1
    /\ th[MainThread].reply.kind = "reply"
    /\ th[MainThread].reply.error = "None"
    /\ th[MainThread].reply.result = TRUE


\* ------------------------------------------------------------------- C30
\* the language of an event, written out: its own "lang" in lower case, the
\* configured default when it has none
ExpectedLang(lang) ==
    CASE lang = NoLang -> <<"e", "n", "-", "u", "s">>
      [] lang = StrLang(<<"E", "N", "-", "U", "S">>) -> <<"e", "n", "-", "u", "s">>
      [] lang = StrLang(<<"d", "e", "-", "d", "e">>) -> <<"d", "e", "-", "d", "e">>

\* C30: the language of an utterance event is the event's lang if it has
\* one, the process-wide default otherwise, in lower case; every matcher
\* called for the event and every converse request sent for it gets that
\* value.
C30_LangThreaded ==
    LET f == th[MainThread] IN
    (f.handler = "utterance" /\ f.msgLang.kind # "None") =>
        /\ f.lang = ExpectedLang(f.msgLang)
        /\ Len(f.calls) = Len(f.trace)
        /\ \A k \in DOMAIN f.calls :
             /\ f.calls[k].func = match_funcs[f.trace[k][1]]
             /\ f.calls[k].lang = ExpectedLang(f.msgLang)
        /\ Len(f.reqMsgs) = Len(f.reqs)
        /\ \A i \in DOMAIN f.reqMsgs : f.reqMsgs[i].lang = ExpectedLang(f.msgLang)

\* an event with lang "EN-US" for which a skill was asked to converse and
\* the matchers after Converse were called
C30_Witness ==
    /\ th[MainThread].handler = "utterance"
    /\ th[MainThread].pc = "done"
    /\ th[MainThread].msgLang = StrLang(<<"E", "N", "-", "U", "S">>)
    /\ Len(th[MainThread].reqMsgs) >= 1
    /\ Len(th[MainThread].calls) >= 3


\* ------------------------------------------------------------------- C31
\* the step in which the skill manager handles message op
MgrStep(op) == nMgr' = nMgr + 1 /\ mgrOp'.op = op

\* loader d is as it was but for its flag "active", which is a
SetActive(d, a) == skill_loaders'[d] = [skill_loaders[d] EXCEPT !.active = a]

LoadersOf(s) == { d \in DOMAIN skill_loaders : skill_loaders[d].skill_id = s }

\* C32: the skill manager answers a skill.converse.request with exactly one
\* skill.converse.response that carries the requested skill id: the result
\* of the converse call when the skill is loaded and the call returns,
\* "skill id does not exist" when no loader has the id, "converse requested
\* but skill not loaded" when the loader is not loaded, "exception in
\* converse method" when the call raises; never a result and an error
\* together.
C32_OneResponse ==
    mgrOp.op = "converse" =>
        /\ Len(mgrPub) = 1
        /\ mgrPub[1].topic = ConverseResponseTopic
        /\ mgrPub[1].skill_id = mgrOp.skill
        /\ (mgrPub[1].result = "absent") # (mgrPub[1].error = "absent")
        /\ mgrPub[1].error =
             IF LoadersOf(mgrOp.skill) = {} THEN "skill id does not exist"
             ELSE IF \E d \in LoadersOf(mgrOp.skill) : ~skill_loaders[d].loaded
                  THEN "converse requested but skill not loaded"
             ELSE IF mgrOp.call = "raise" THEN "exception in converse method"
             ELSE "absent"
        /\ mgrPub[1].error = "absent" => mgrPub[1].result = mgrOp.call

\* a request for a skill that was unloaded, answered with the error
C32_Witness ==
    /\ mgrOp.op = "converse"
    /\ mgrOp.skill = "X"
    /\ skill_loaders # <<>>
    /\ LoadersOf("X") = {}
    /\ mgrPub = <<ErrorResponse("X", "skill id does not exist")>>


\* ------------------------------------------------------------------- C33
\* C33: the Padatious probe evaluates the raw utterance first, and the
\* normalized one only if the raw one gave no intent and a normalized form
\* that differs from the raw utterance came with the query; it publishes
\* exactly one intent.service.padatious.reply, which carries the raw match
\* when there is one.
C33_RawThenNorm ==
    LET f == th[MainThread] IN
    (f.handler = "get_padatious" /\ f.pc = "done" /\ f.aborted = "no") =>
        /\ Len(f.calls) \in {1, 2}
        /\ f.calls[1].utterance = f.utterance
        /\ Len(f.calls) = 2 <=>
              /\ f.calls[1].answer = "None"
              /\ f.data.norm_utt \notin {"None", f.utterance}
        /\ Len(f.calls) = 2 => f.calls[2].utterance = f.data.norm_utt
        /\ Len(f.pub) = 1
        /\ f.pub[1].topic = PadatiousReplyTopic
        /\ f.calls[1].answer # "None" => f.pub[1].data = f.calls[1].answer
        /\ Len(f.calls) = 2 => f.pub[1].data = f.calls[2].answer

\* the raw utterance gave nothing, the normalized one an intent
C33_Witness ==
    /\ th[MainThread].handler = "get_padatious"
    /\ Len(th[MainThread].calls) = 2
    /\ th[MainThread].calls[2].utterance = "what is the time"
    /\ th[MainThread].pub = <<Msg(PadatiousReplyTopic, "intent of norm")>>


\* ------------------------------------------------------------------- C34
\* no loader occurs twice in the list
OneEntryEach(queue) ==
    \A i, j \in 1..Len(queue) : queue[i] = queue[j] => i = j

\* C34: the upload queue holds at most one entry per loader: a put removes
\* the entry equal to its loader from the queue it found and appends the
\* loader at the end, however the puts and sends of other threads
\* interleave with it.
C34_OneEntryPerLoader ==
    [][ /\ OneEntryEach(upload_queue')
        /\ \A t \in QThreads :
             (qth[t].pc = "put_append" /\ qth'[t].pc = "done") =>
                upload_queue' =
                    Append(QueueWithout(qth[t].q0, qth[t].loader),
                           qth[t].loader) ]_vars

\* a put of A on a queue that held A before B, completed while the other
\* thread is inside send
C34_Witness ==
    \E t, u \in QThreads :
        /\ t # u
        /\ qth[t].op = "put" /\ qth[t].pc = "done" /\ qth[t].loader = "A"
        /\ qth[t].q0 = <<"A", "B">>
        /\ upload_queue = <<"B", "A">>
        /\ qth[u].pc = "send_lock"


\* ------------------------------------------------------------------- C35
\* the loaders a running send took out of the queue and has not reached yet
Pending(t) ==
    IF qth[t].pc = "send_loop"
    THEN {qth[t].queue[k] : k \in qth[t].i .. Len(qth[t].queue)}
    ELSE {}

InQueue(loader) == \E k \in 1..Len(upload_queue) : upload_queue[k] = loader

\* C35: the upload queue never loses a loader: every loader put and not
\* uploaded since is still in the queue, or in the hands of a send that has
\* yet to reach it (or of a put that is re-appending it), after any
\* interleaving of put, start, stop and send.
C35_NoLoaderLost ==
    \A loader \in owed :
        \/ InQueue(loader)
        \/ \E t \in QThreads : loader \in Pending(t)
        \/ \E t \in QThreads :
              qth[t].pc = "put_append" /\ qth[t].loader = loader


\* ------------------------------------------------------------------- C36
HasEntry(list, s) == \E i \in 1..Len(list) : list[i][1] = s

\* the step of thread t is remove_active_skill taking an entry of s away:
\* an explicit removal, the eviction after a converse error, or the removal
\* that opens a new activation of s
RemovalStep(t, s) ==
    /\ th[t].pc = "rm_do"
    /\ th[t].rmTarget = s
    /\ th'[t].pc # "rm_do"

\* the step is a pruning assignment and every entry of s has expired
ExpiryStep(t, s) ==
    /\ PruneStep(t)
    /\ \A i \in 1..Len(active_skills) :
         active_skills[i][1] = s => ~Fresh(active_skills[i], now)

\* C36: an activation is never lost to a concurrent resolution: a skill
\* that has an entry in the registry keeps one until remove_active_skill
\* takes it away (explicitly or on a converse error) or a pruning step
\* drops it because it has expired, also while another thread is pruning.
C36_ActivationKept ==
    [][ \A s \in Skills :
          (HasEntry(active_skills, s) /\ ~HasEntry(active_skills', s)) =>
              \E t \in Threads : RemovalStep(t, s) \/ ExpiryStep(t, s) ]_vars


\* ------------------------------------------------------------------- C38
\* a converse error reply that does not say the skill is unknown
OtherError(r) ==
    /\ r.kind = "reply"
    /\ r.error \in ConverseErrors \ {"skill id does not exist"}

\* the step of thread t is do_converse receiving its reply
ReplyStep(t) == th[t].pc = "await" /\ th'[t].pc # "await"

NoLoader(s) ==
    \A d \in DOMAIN skill_loaders : skill_loaders[d].skill_id # s

\* the step of thread t ends the removal that a converse error started
EvictionDone(t) ==
    /\ th[t].pc = "rm_scan"
    /\ th[t].rmRet = "next"
    /\ th'[t].pc \notin {"rm_scan", "rm_do"}

\* the step of thread t ends _converse without a candidate having handled
\* the utterance
ConverseUnhandled(t) ==
    /\ th[t].handler = "utterance"
    /\ th[t].pc \in {"copy", "await", "rm_scan"}
    /\ th'[t].pc = "matchers"
    /\ ~Truthy(th'[t].match)

\* C37: a skill that has no loader in the skill manager and is still in the
\* registry is evicted by the first converse attempt that sends it a request
\* and receives the reply: the reply is the error "skill id does not
\* exist", the removal it starts leaves no entry of the skill, and an
\* attempt that no candidate handles has sent a request to every candidate.
C37_UnloadedEvicted ==
    [][ /\ (/\ ReplyStep(MainThread)
            /\ th'[MainThread].reply.kind = "reply"
            /\ NoLoader(th[MainThread].cands[th[MainThread].ci][1])) =>
               /\ th'[MainThread].reply.error = "skill id does not exist"
               /\ th'[MainThread].pc = "rm_scan"
               /\ th'[MainThread].rmTarget =
                     th[MainThread].cands[th[MainThread].ci][1]
        /\ EvictionDone(MainThread) =>
               ~HasEntry(active_skills', th[MainThread].rmTarget)
        /\ ConverseUnhandled(MainThread) =>
               th'[MainThread].reqs = th'[MainThread].cands ]_vars

\* X was loaded, activated and unloaded; the next event asked it and the
\* reply took it out of the registry
C37_Witness ==
    /\ mgrOp.op = "unload" /\ mgrOp.skill = "X"
    /\ NoLoader("X")
    /\ HasEntry(th[MainThread].before, "X")
    /\ "X" \in th[MainThread].gone
    /\ ~HasEntry(active_skills, "X")
    /\ th[MainThread].pc = "done"


\* ------------------------------------------------------------------- C39
\* thread t is inside the removal that a converse error started
Evicting(t) == th[t].pc \in {"rm_scan", "rm_do"} /\ th[t].rmRet = "next"

\* the step of thread t ends reset_converse
ResetDone(t) ==
    th[t].handler = "reset" /\ th[t].pc # "done" /\ th'[t].pc = "done"

\* C39: evicting a skill in the middle of a converse attempt does not
\* disturb the attempt: the candidates stay what they were when the attempt
\* started, the loop goes on with the candidate after the evicted one, each
\* request goes to the candidate whose turn it is, and an attempt in which
\* a skill was evicted and no candidate handled the utterance has sent a
\* request to every candidate, in their order; the same for reset_converse.
C39_EvictionKeepsAttempt ==
    [][ LET f == th[MainThread]
            g == th'[MainThread]
        IN /\ Evicting(MainThread) => g.cands = f.cands
           /\ EvictionDone(MainThread) => g.ci = f.ci + 1
           /\ RequestStep(MainThread) => g.reqs[Len(g.reqs)] = f.cands[f.ci]
           /\ (ConverseUnhandled(MainThread) /\ g.gone # {}) =>
                 g.reqs = g.cands
           /\ (ResetDone(MainThread) /\ g.aborted = "no" /\ g.gone # {}) =>
                 g.reqs = g.cands /\ g.cands = g.before ]_vars

\* the first of two candidates was evicted and the second has been asked
C39_Witness ==
    LET f == th[MainThread] IN
    /\ f.handler = "utterance"
    /\ Len(f.cands) = 2
    /\ f.gone = {f.cands[1][1]}
    /\ f.reqs = f.cands
    /\ f.pc = "await"
    /\ active_skills = <<f.cands[2]>>

====
